---- MODULE Spec2Model ----
(***************************************************************************)
(* A model of the HTML table engine of src/html_table.py: the Style, Cell, *)
(* Row, Rows and Table classes, their constructors, mutators and renderers.*)
(*                                                                         *)
(* Python objects live in heaps (sequences indexed by object id), so that  *)
(* two references to one object are two uses of one id.  A Python string   *)
(* built by concatenation is a sequence of tokens; '' is <<>>.  None, True *)
(* and False are the strings "None", "True" and "False".  A dict is the    *)
(* sequence of its <<key, value>> items in insertion order.                *)
(***************************************************************************)
EXTENDS Integers, Sequences, FiniteSets, TLC

VARIABLES
  styleHeap,   \* Style objects: id -> [align, font, size, bold, borders, css]
  cellHeap,    \* Cell objects:  id -> [value, width, height, header, style]
  rowHeap,     \* Row objects:   id -> [items, header, style]
  rowsHeap,    \* Rows objects:  id -> [items, header, style]
  tableHeap,   \* Table objects: id -> [header, body, style]
  copiedFrom,  \* per Cell id, the Cell it was copied from (0: built from raw input)
  hashOrder,   \* the order in which this process iterates a set of border names
  last,        \* the last call made: [op, target, arg, err, out]
  steps,       \* number of calls made so far
  generatorList \* the GeneratorList object: [made, source, pos, _current_list, _generator_done]

vars == <<styleHeap, cellHeap, rowHeap, rowsHeap, tableHeap, copiedFrom, hashOrder, last, steps,
          generatorList>>

-----------------------------------------------------------------------------
(* Bounds of the model. *)

MaxCells == 2
MaxSteps == 3

-----------------------------------------------------------------------------
(* Python values. *)

None == "None"
PyTrue == "True"
PyFalse == "False"

\* bool(v) is False
Falsy(v) == v \in {None, "", PyFalse}

BORDER_STYLE == "1px solid black"

\* The border names of the model; add_border uses 'top' and 'left'.
BorderNames == {"top", "left"}

\* The values of the model that float() accepts: the decimal numerals below 1000.
\* The other values of the model are None, words, '', and numerals with a ','
\* or a ' %' in them, which float() rejects.
NumericValues == {ToString(n) : n \in 0..999}

\* is_number(value): float(value) succeeds.
is_number(value) == value \in NumericValues

-----------------------------------------------------------------------------
(* dict *)

DictKeys(d) == {d[i][1] : i \in 1..Len(d)}

\* d.get(k): None when the key is missing
DictGet(d, k) ==
  IF k \in DictKeys(d) THEN d[CHOOSE i \in 1..Len(d) : d[i][1] = k][2] ELSE None

\* d[k] = v: an existing key keeps its place, a new key goes last
DictSet(d, k, v) ==
  IF k \in DictKeys(d)
  THEN [i \in 1..Len(d) |-> IF d[i][1] = k THEN <<k, v>> ELSE d[i]]
  ELSE Append(d, <<k, v>>)

\* mapping.get(k) for a keyword mapping (a function from names to values)
KwGet(kw, k) == IF k \in DOMAIN kw THEN kw[k] ELSE None

EmptyKw == <<>>

RECURSIVE Join(_, _)
\* delim.join(parts), each part and the delimiter a token sequence
Join(parts, delim) ==
  IF Len(parts) = 0 THEN <<>>
  ELSE IF Len(parts) = 1 THEN parts[1]
  ELSE parts[1] \o delim \o Join(Tail(parts), delim)

\* A local variable: Body applied to the value, which is computed once.
Bind(value, Body(_)) == CHOOSE r \in {Body(v) : v \in {value}} : TRUE

-----------------------------------------------------------------------------
(* Style *)

\* Style.METADATA: the declared attributes, in declaration order.
METADATA == <<"align", "font", "size", "bold", "borders", "css">>

MetaKeys == {METADATA[i] : i \in 1..Len(METADATA)}

\* The 'default' entries of Style.METADATA.
StyleDefaults ==
  [align |-> "left", font |-> None, size |-> None, bold |-> None,
   borders |-> {}, css |-> <<>>]

\* Style.parse_borders on an iterable of names: set(value), a new set.
parse_borders(value) == {b \in value : TRUE}

\* Style.parse_css on a mapping: dict(value), a new dict with the same items.
parse_css(value) == [i \in 1..Len(value) |-> <<value[i][1], value[i][2]>>]

\* Style.__setattr__: the value stored for attr.
StyleSetattrValue(attr, raw_value) ==
  IF attr = "css" THEN parse_css(raw_value)
  ELSE IF attr = "borders" THEN parse_borders(raw_value)
  ELSE raw_value

\* Style.__init__ raises AttributeError: a keyword that is no declared attribute.
StyleInitErr(kwargs) == (DOMAIN kwargs) \ MetaKeys # {}

\* Style.__init__(**kwargs)
StyleInit(kwargs) ==
  [key \in MetaKeys |->
     StyleSetattrValue(key, IF key \in DOMAIN kwargs THEN kwargs[key]
                            ELSE StyleDefaults[key])]

\* vars(style): every declared attribute as a keyword mapping.
StyleVars(s) == [key \in MetaKeys |-> s[key]]

\* Style.copy(): type(self)(**vars(self))
StyleCopy(s) == StyleInit(StyleVars(s))

\* The borders of a set in this process's iteration order.
BordersIter(borders) == SelectSeq(hashOrder, LAMBDA b : b \in borders)

RECURSIVE BordersIntoCss(_, _)
\* for border in value: css[f'border-{border}'] = BORDER_STYLE
BordersIntoCss(css, seq) ==
  IF seq = <<>> THEN css
  ELSE BordersIntoCss(DictSet(css, "border-" \o Head(seq), BORDER_STYLE), Tail(seq))

\* The dict Style.__str__ builds: a copy of css, then every declared attribute
\* that is not None written over it, in METADATA order.
StyleStrCss(s) ==
  LET c0 == s.css
      c1 == IF s.align # None THEN DictSet(c0, "text-align", s.align) ELSE c0
      c2 == IF s.font # None THEN DictSet(c1, "font-family", s.font) ELSE c1
      c3 == IF s.size # None THEN DictSet(c2, "font-size", s.size) ELSE c2
      c4 == IF s.bold = PyTrue THEN DictSet(c3, "font-weight", "bold")
            ELSE IF s.bold = PyFalse THEN DictSet(c3, "font-weight", "normal")
            ELSE c3
  IN  BordersIntoCss(c4, BordersIter(s.borders))

\* Style.__str__
StyleStr(s) ==
  LET css == StyleStrCss(s)
      css_statements == [i \in 1..Len(css) |-> <<css[i][1], ": ", css[i][2]>>]
  IN  IF css # <<>>
      THEN <<"style=\"">> \o Join(css_statements, <<"; ">>) \o <<"\"">>
      ELSE <<>>

\* Style.to_attr_str
to_attr_str(s) ==
  LET style_str == StyleStr(s)
  IN  IF style_str # <<>> THEN <<" ">> \o style_str ELSE <<>>

-----------------------------------------------------------------------------
(* The heap. *)

Heap ==
  [styles |-> styleHeap, cells |-> cellHeap, rows |-> rowHeap,
   rowss |-> rowsHeap, tables |-> tableHeap, from |-> copiedFrom]

SetHeap(h) ==
  /\ styleHeap' = h.styles
  /\ cellHeap' = h.cells
  /\ rowHeap' = h.rows
  /\ rowsHeap' = h.rowss
  /\ tableHeap' = h.tables
  /\ copiedFrom' = h.from

\* Styled.init_style: the keywords that are Style attributes make the new Style.
StyleKwargs(kwargs) == [key \in (DOMAIN kwargs) \cap MetaKeys |-> kwargs[key]]

-----------------------------------------------------------------------------
(* Cell *)

\* Cell.ATTR_DEFAULTS
ATTR_DEFAULTS == [width |-> 1, height |-> 1, header |-> None]

AttrKeys == {"width", "height", "header"}

\* Cell.init_attrs: each attribute from kwargs, or its default.
CellInitAttrs(kwargs) ==
  [attr \in AttrKeys |-> IF attr \in DOMAIN kwargs THEN kwargs[attr]
                         ELSE ATTR_DEFAULTS[attr]]

\* Cell.init_all raises AttributeError: a key that is neither a cell attribute
\* nor a Style attribute, nor ignored.
CellInitAllErr(kwargs, ignore) ==
  LET unused_attrs == (DOMAIN kwargs) \ AttrKeys
      unused_styles == (DOMAIN kwargs) \ MetaKeys
  IN  ((unused_attrs \cap unused_styles) \ ignore) # {}

\* The cell with its Style read through the reference.
CellViewIn(h, c) ==
  [value |-> h.cells[c].value, width |-> h.cells[c].width,
   height |-> h.cells[c].height, header |-> h.cells[c].header,
   style |-> h.styles[h.cells[c].style]]

CellView(c) == CellViewIn(Heap, c)

\* A new Cell object with a new Style object.
AllocCell(h, value, attrs, style, src) ==
  LET sid == Len(h.styles) + 1
      cid == Len(h.cells) + 1
  IN  [h |-> [h EXCEPT !.styles = Append(@, style),
                       !.cells = Append(@, [value |-> value, width |-> attrs.width,
                                            height |-> attrs.height,
                                            header |-> attrs.header, style |-> sid]),
                       !.from = Append(@, src)],
       id |-> cid, err |-> FALSE]

\* A copy that keeps the original's Style object instead of copying it.
CellCopyShared(h, c) ==
  LET cid == Len(h.cells) + 1
  IN  [h |-> [h EXCEPT !.cells = Append(@, h.cells[c]), !.from = Append(@, c)],
       id |-> cid, err |-> FALSE]

\* Cell.copy: a new Cell with the value (strings and None have no copy method,
\* so the value is assigned by reference), a copy of the Style, and the
\* original's width, height and header.
CellCopy(h, c) ==
  AllocCell(h, h.cells[c].value,
            CellInitAttrs([attr \in AttrKeys |-> h.cells[c][attr]]),
            StyleCopy(h.styles[h.cells[c].style]), c)

\* Cell.__init__(raw_cell, value, **kwargs).  raw_cell is [t |-> "cell", id],
\* [t |-> "map", m] or [t |-> "val", v].
CellInit(h, raw_cell, value, kwargs) ==
  IF raw_cell.t = "cell" THEN CellCopy(h, raw_cell.id)
  ELSE IF CellInitAllErr(kwargs, {}) THEN [h |-> h, id |-> 0, err |-> TRUE]
  ELSE IF raw_cell.t = "map" /\ CellInitAllErr(raw_cell.m, {"value"})
  THEN [h |-> h, id |-> 0, err |-> TRUE]
  ELSE
    LET from == IF raw_cell.t = "map" THEN raw_cell.m ELSE kwargs
        self_value == IF raw_cell.t = "map" THEN KwGet(raw_cell.m, "value")
                      ELSE IF raw_cell.v = None THEN value
                      ELSE raw_cell.v
        style == StyleInit(StyleKwargs(from))
        final == IF Falsy(KwGet(kwargs, "align")) /\ is_number(self_value)
                 THEN [style EXCEPT !.align = "right"]
                 ELSE style
    IN  AllocCell(h, self_value, CellInitAttrs(from), final, 0)

\* Styled.__setattr__ on a Cell: a Style attribute goes to the cell's Style,
\* anything else is an attribute of the cell itself.
CellSetattr(h, c, attr, value) ==
  IF attr \in MetaKeys
  THEN [h EXCEPT !.styles[h.cells[c].style][attr] = StyleSetattrValue(attr, value)]
  ELSE [h EXCEPT !.cells[c][attr] = value]

\* cell.css[key] = value
CellCssSetitem(h, c, key, value) ==
  [h EXCEPT !.styles[h.cells[c].style].css = DictSet(@, key, value)]

\* cell.borders.add(border)
CellBordersAdd(h, c, border) ==
  [h EXCEPT !.styles[h.cells[c].style].borders = @ \cup {border}]

RECURSIVE ApplyCss(_, _, _)
\* for ckey, cvalue in value.items():
\*   if overwrite or not self.style.css.get(ckey): self.style.css[ckey] = cvalue
ApplyCss(css, overwrite, items) ==
  IF items = <<>> THEN css
  ELSE LET ckey == Head(items)[1]
           cvalue == Head(items)[2]
           next == IF overwrite \/ Falsy(DictGet(css, ckey))
                   THEN DictSet(css, ckey, cvalue) ELSE css
       IN  ApplyCss(next, overwrite, Tail(items))

\* getattr(self.style, key) is None (borders is always a set, never None)
AttrIsNone(s, key) == key # "borders" /\ s[key] = None

\* One key of Cell.apply on a Style.
ApplyKey(s, overwrite, key, value) ==
  IF key = "css" THEN [s EXCEPT !.css = ApplyCss(@, overwrite, value)]
  ELSE IF key \in MetaKeys
  THEN IF overwrite THEN [s EXCEPT ![key] = StyleSetattrValue(key, value)]
       ELSE IF AttrIsNone(s, key)
       THEN [s EXCEPT ![key] = StyleSetattrValue(key, value)]
       ELSE s
  ELSE s

RECURSIVE ApplyKeys(_, _, _, _)
ApplyKeys(s, overwrite, kwargs, keys) ==
  IF keys = {} THEN s
  ELSE LET key == CHOOSE k \in keys : TRUE
       IN  ApplyKeys(ApplyKey(s, overwrite, key, kwargs[key]), overwrite, kwargs,
                     keys \ {key})

\* Cell.apply(overwrite, **kwargs): the keys touch different attributes, so the
\* order they are visited in does not matter.
CellApply(h, c, overwrite, kwargs) ==
  [h EXCEPT !.styles[h.cells[c].style] = ApplyKeys(@, overwrite, kwargs, DOMAIN kwargs)]

-----------------------------------------------------------------------------
(* Calls on cells: the inputs of the model. *)

Val(v) == [t |-> "val", v |-> v]
Map(m) == [t |-> "map", m |-> m]
CellRef(c) == [t |-> "cell", id |-> c]

RawCellInputs ==
  { Val(None), Val("x"), Val("7"),
    Map(("value" :> "7") @@ ("align" :> "center")),
    Map(("value" :> "x") @@ ("width" :> 2) @@ ("header" :> PyTrue)) }

CellKwInputs ==
  { EmptyKw,
    ("align" :> "center"),
    ("bold" :> PyTrue) @@ ("css" :> << <<"font-weight", "normal">> >>) }

SetattrInputs ==
  { <<"align", "right">>, <<"font", "serif">>, <<"width", 3>>, <<"header", PyFalse>> }

CssItemInputs == { <<"text-align", "justify">> }

ApplyKwInputs ==
  { ("align" :> "center") @@ ("font" :> "serif"),
    ("borders" :> {"left"}) @@ ("bold" :> PyFalse),
    ("css" :> << <<"font-weight", "bold">>, <<"color", "blue">> >>) }

Cells == 1..Len(cellHeap)

\* A call is made: what was called, on which object, with which arguments,
\* whether it raised, and the string it returned (<<>> when it returns none).
CallOut(op, target, arg, err, out) ==
  /\ last' = [op |-> op, target |-> target, arg |-> arg, err |-> err, out |-> out]
  /\ steps' = steps + 1
  /\ UNCHANGED <<hashOrder, generatorList>>

Call(op, target, arg, err) == CallOut(op, target, arg, err, <<>>)

\* Cell(raw_cell, value=value, **kwargs)
NewCell(raw_cell, value, kwargs) ==
  /\ steps < MaxSteps
  /\ Len(cellHeap) < MaxCells
  /\ LET r == CellInit(Heap, raw_cell, value, kwargs)
     IN  /\ SetHeap(r.h)
         /\ Call("Cell", r.id, [raw_cell |-> raw_cell, value |-> value, kwargs |-> kwargs],
                 r.err)

\* cell.copy()
CopyCell(c) ==
  /\ steps < MaxSteps
  /\ Len(cellHeap) < MaxCells
  /\ LET r == CellCopy(Heap, c)
     IN  /\ SetHeap(r.h)
         /\ Call("copy", r.id, [src |-> c], FALSE)

\* cell.<attr> = value
SetCellAttr(c, attr, value) ==
  /\ steps < MaxSteps
  /\ SetHeap(CellSetattr(Heap, c, attr, value))
  /\ Call("setattr", c, [attr |-> attr, value |-> value], FALSE)

\* cell.css[key] = value
SetCssItem(c, key, value) ==
  /\ steps < MaxSteps
  /\ SetHeap(CellCssSetitem(Heap, c, key, value))
  /\ Call("css_setitem", c, [key |-> key, value |-> value], FALSE)

\* cell.borders.add(border)
AddBorderName(c, border) ==
  /\ steps < MaxSteps
  /\ SetHeap(CellBordersAdd(Heap, c, border))
  /\ Call("borders_add", c, [border |-> border], FALSE)

\* cell.apply(overwrite=overwrite, **kwargs)
ApplyCell(c, overwrite, kwargs) ==
  /\ steps < MaxSteps
  /\ SetHeap(CellApply(Heap, c, overwrite, kwargs))
  /\ Call("apply", c, [overwrite |-> overwrite, kwargs |-> kwargs], FALSE)

\* Every order in which a set of names may be iterated.
IterOrders(S) ==
  {p \in [1..Cardinality(S) -> S] : \A i, j \in 1..Cardinality(S) : p[i] = p[j] => i = j}

Init ==
  /\ styleHeap = <<>>
  /\ cellHeap = <<>>
  /\ rowHeap = <<>>
  /\ rowsHeap = <<>>
  /\ tableHeap = <<>>
  /\ copiedFrom = <<>>
  /\ hashOrder \in IterOrders(BorderNames)
  /\ last = [op |-> "none", target |-> 0, arg |-> <<>>, err |-> FALSE, out |-> <<>>]
  /\ steps = 0
  /\ generatorList = [made |-> FALSE, source |-> <<>>, pos |-> 0,
                      _current_list |-> <<>>, _generator_done |-> FALSE]

Next ==
  \/ \E raw_cell \in RawCellInputs \cup {CellRef(c) : c \in Cells}, kwargs \in CellKwInputs :
       \E value \in (IF raw_cell = Val(None) THEN {None, "7"} ELSE {None}) :
         NewCell(raw_cell, value, kwargs)
  \/ \E c \in Cells : CopyCell(c)
  \/ \E c \in Cells, a \in SetattrInputs : SetCellAttr(c, a[1], a[2])
  \/ \E c \in Cells, i \in CssItemInputs : SetCssItem(c, i[1], i[2])
  \/ \E c \in Cells, b \in BorderNames : AddBorderName(c, b)
  \/ \E c \in Cells, overwrite \in BOOLEAN, kwargs \in ApplyKwInputs :
       ApplyCell(c, overwrite, kwargs)

\* The calls on cells: construction, copy, mutation and apply.
Spec == Init /\ [][Next]_vars

-----------------------------------------------------------------------------
(* Claims about Style and Cell, checked under Spec. *)

Styles == 1..Len(styleHeap)

\* The value the serialized style string gives for a CSS property (None: the
\* property is not in the string).
SerializedValue(out, prop) ==
  IF \E i \in 1..Len(out) - 2 : out[i] = prop /\ out[i + 1] = ": "
  THEN out[(CHOOSE i \in 1..Len(out) - 2 : out[i] = prop /\ out[i + 1] = ": ") + 2]
  ELSE None

\* C1: for every Style, to_attr_str() is '' if and only if every declared
\* attribute equals its default and css is empty (so Style() gives ''); in every
\* other case the result starts with ' style="' and ends with '"'.
C1_EmptyIffAllDefault ==
  \A i \in Styles :
    LET s == styleHeap[i]
        out == to_attr_str(s)
    IN  /\ (out = <<>>) <=> (s = StyleDefaults)
        /\ out # <<>> => (out[1] = " " /\ out[2] = "style=\"" /\ out[Len(out)] = "\"")

\* The CSS properties the declared attributes of a Style derive.
DerivedProps(s) ==
  (IF s.align # None THEN {"text-align"} ELSE {})
  \cup (IF s.font # None THEN {"font-family"} ELSE {})
  \cup (IF s.size # None THEN {"font-size"} ELSE {})
  \cup (IF s.bold \in {PyTrue, PyFalse} THEN {"font-weight"} ELSE {})
  \cup {"border-" \o b : b \in s.borders}

\* C2: when css explicitly sets a CSS property that a declared attribute also
\* derives, the serialized style string carries the value given in css.
C2_ExplicitCssWins ==
  \A i \in Styles :
    LET s == styleHeap[i]
    IN  \A prop \in DictKeys(s.css) \cap DerivedProps(s) :
          SerializedValue(to_attr_str(s), prop) = DictGet(s.css, prop)

\* The calls that mutate one cell.
MutatingOps == {"setattr", "css_setitem", "borders_add", "apply"}

\* One cell is a copy of the other.
CopyPair(c, d) == copiedFrom[c] = d \/ copiedFrom[d] = c

\* C3: after copy = cell.copy() (or Cell(cell)), a mutation of the copy's css,
\* borders, align/font/size/bold, width, height or header leaves the original's
\* attributes and style unchanged, and a mutation of the original leaves the
\* copy unchanged.
C3_CopyIndependent ==
  [][\A c \in Cells :
       (last'.op \in MutatingOps /\ CopyPair(c, last'.target))
         => CellView(c)' = CellView(c)]_vars

\* A copy whose css was mutated after the copy and now differs from its original's.
C3_Witness ==
  /\ last.op = "css_setitem"
  /\ copiedFrom[last.target] # 0
  /\ DictGet(CellView(last.target).style.css, last.arg.key) = last.arg.value
  /\ DictGet(CellView(copiedFrom[last.target]).style.css, last.arg.key) = None

\* C4: whenever the caller specifies align, as a constructor keyword or as the
\* 'align' key of a dict-shaped cell spec, the constructed Cell keeps that align
\* (a numeric-looking value turns align to 'right' only when none was given).
C4_KeepsCallerAlign ==
  (last.op = "Cell" /\ ~last.err /\ last.arg.raw_cell.t # "cell") =>
    LET kwargs == last.arg.kwargs
        raw_cell == last.arg.raw_cell
        in_map == raw_cell.t = "map" /\ "align" \in DOMAIN raw_cell.m
        in_kw == "align" \in DOMAIN kwargs
        align == CellView(last.target).style.align
    IN  /\ (in_kw /\ ~in_map) => align = kwargs["align"]
        /\ (in_map /\ ~in_kw) => align = raw_cell.m["align"]
        /\ (~in_kw /\ ~in_map) =>
             align = IF is_number(CellView(last.target).value) THEN "right" ELSE "left"

\* What apply(overwrite=False, **kwargs) is claimed to make of a Style.
ApplyKeepsSetValues(old, new, kwargs) ==
  /\ \A key \in MetaKeys \ {"css"} :
       new[key] = IF key \in DOMAIN kwargs /\ old[key] = StyleDefaults[key]
                  THEN StyleSetattrValue(key, kwargs[key])
                  ELSE old[key]
  /\ IF "css" \in DOMAIN kwargs
     THEN \A ckey \in DictKeys(old.css) \cup DictKeys(kwargs["css"]) :
            DictGet(new.css, ckey) = IF ckey \in DictKeys(old.css)
                                     THEN DictGet(old.css, ckey)
                                     ELSE DictGet(kwargs["css"], ckey)
     ELSE new.css = old.css

\* C5: Cell.apply(overwrite=False, **attrs) sets each named style attribute
\* exactly when it currently holds its default (align 'left', font/size/bold
\* None, borders empty), leaves the others unchanged, and merges css key by key
\* without replacing a key that already has a value.
C5_ApplyFillsDefaults ==
  [][(last'.op = "apply" /\ ~last'.arg.overwrite) =>
       ApplyKeepsSetValues(styleHeap[cellHeap[last'.target].style],
                           styleHeap'[cellHeap'[last'.target].style],
                           last'.arg.kwargs)]_vars

-----------------------------------------------------------------------------
(* Row, Rows and Table: construction. *)

\* Raw rows: a list of raw items, a Row object, or None.
List(items) == [t |-> "list", items |-> items]
RowRef(r) == [t |-> "row", rid |-> r]
NoRaw == [t |-> "none"]

\* The order in which the mapping literals of the model list their keys.
KeyOrder == <<"value", "width", "height", "header", "align", "font", "size", "bold",
              "borders", "css">>

\* iter(mapping): its keys
MapKeys(m) == SelectSeq(KeyOrder, LAMBDA k : k \in DOMAIN m)

\* isinstance(item, str) or not isinstance(item, collections.abc.Iterable): a bare
\* value (a str or None) or a Cell; lists, mappings and Rows are iterable.
NotIterableOrStr(item) == item.t \in {"val", "cell"}

RECURSIVE CastCells(_, _)
\* Row.append of every raw cell: ListLike._cast keeps a Cell and builds a Cell
\* from anything else.
CastCells(h, raw_row) ==
  IF raw_row = <<>> THEN [h |-> h, ids |-> <<>>, err |-> FALSE]
  ELSE Bind(IF Head(raw_row).t = "cell"
            THEN [h |-> h, id |-> Head(raw_row).id, err |-> FALSE]
            ELSE CellInit(h, Head(raw_row), None, EmptyKw),
            LAMBDA cast :
              IF cast.err THEN [h |-> h, ids |-> <<>>, err |-> TRUE]
              ELSE Bind(CastCells(cast.h, Tail(raw_row)),
                        LAMBDA rest : [h |-> rest.h, ids |-> <<cast.id>> \o rest.ids,
                                       err |-> rest.err]))

\* The raw cells Row.__init__ iterates over: the items of a list, the Cells of a
\* Row, the keys of a mapping; nothing when raw_row is None.
RowRawCells(h, raw_row) ==
  CASE raw_row.t = "list" -> raw_row.items
    [] raw_row.t = "row" -> [i \in 1..Len(h.rows[raw_row.rid].items) |->
                               CellRef(h.rows[raw_row.rid].items[i])]
    [] raw_row.t = "map" -> [i \in 1..Len(MapKeys(raw_row.m)) |-> Val(MapKeys(raw_row.m)[i])]
    [] raw_row.t = "none" -> <<>>

\* Row.__init__(raw_row, header, **kwargs): a new Row object with its own Style.
RowInit(h, raw_row, header, kwargs) ==
  Bind(CastCells(h, RowRawCells(h, raw_row)),
       LAMBDA cs :
         IF cs.err THEN [h |-> h, id |-> 0, err |-> TRUE]
         ELSE [h |-> [cs.h EXCEPT !.styles = Append(@, StyleInit(StyleKwargs(kwargs))),
                                  !.rows = Append(@, [items |-> cs.ids, header |-> header,
                                                      style |-> Len(cs.h.styles) + 1])],
               id |-> Len(cs.h.rows) + 1, err |-> FALSE])

RECURSIVE CastRows(_, _)
\* Rows.append of every raw row: a Row is kept, anything else makes a new Row.
CastRows(h, raw_rows) ==
  IF raw_rows = <<>> THEN [h |-> h, ids |-> <<>>, err |-> FALSE]
  ELSE Bind(IF Head(raw_rows).t = "row"
            THEN [h |-> h, id |-> Head(raw_rows).rid, err |-> FALSE]
            ELSE RowInit(h, Head(raw_rows), None, EmptyKw),
            LAMBDA cast :
              IF cast.err THEN [h |-> h, ids |-> <<>>, err |-> TRUE]
              ELSE Bind(CastRows(cast.h, Tail(raw_rows)),
                        LAMBDA rest : [h |-> rest.h, ids |-> <<cast.id>> \o rest.ids,
                                       err |-> rest.err]))

\* The raw rows Rows.__init__ appends: none for None or an empty list, the
\* whole list as one row when its first item is a str or not iterable, and the
\* items otherwise.
RowsRawRows(raw_rows) ==
  IF raw_rows.t = "none" THEN <<>>
  ELSE IF raw_rows.items = <<>> THEN <<>>
  ELSE IF NotIterableOrStr(raw_rows.items[1]) THEN <<raw_rows>>
  ELSE raw_rows.items

\* Rows.__init__(raw_rows, header, **kwargs): a new Rows object with its own Style.
RowsInit(h, raw_rows, header, kwargs) ==
  Bind(CastRows(h, RowsRawRows(raw_rows)),
       LAMBDA rs :
         IF rs.err THEN [h |-> h, id |-> 0, err |-> TRUE]
         ELSE [h |-> [rs.h EXCEPT !.styles = Append(@, StyleInit(StyleKwargs(kwargs))),
                                  !.rowss = Append(@, [items |-> rs.ids, header |-> header,
                                                       style |-> Len(rs.h.styles) + 1])],
               id |-> Len(rs.h.rowss) + 1, err |-> FALSE])

DEFAULT_HEADER_STYLE == ("bold" :> PyTrue)

\* body[:n] and body[n:] of a list, 0 <= n
SliceTo(raw, n) == List(SubSeq(raw.items, 1, n))
SliceFrom(raw, n) == List(SubSeq(raw.items, n + 1, Len(raw.items)))

\* Table.__init__(body, header, header_len, header_style=None, **kwargs).
\* header_len is <<>> for None and <<n>> for n.  The header setter runs first, the
\* body setter second; then the header's Style is replaced and the table gets
\* its own.
TableInit(h, body, header, header_len, kwargs) ==
  LET header_style == DEFAULT_HEADER_STYLE
      split == header.t = "none" /\ header_len # <<>> /\ body.t # "none"
      raw_header == IF split THEN SliceTo(body, header_len[1]) ELSE header
      raw_body == IF split THEN SliceFrom(body, header_len[1]) ELSE body
  IN  Bind(RowsInit(h, raw_header, PyTrue, EmptyKw),
           LAMBDA hd :
             IF hd.err THEN [h |-> h, id |-> 0, err |-> TRUE]
             ELSE Bind(RowsInit(hd.h, raw_body, PyFalse, EmptyKw),
                       LAMBDA bd :
                         IF bd.err THEN [h |-> h, id |-> 0, err |-> TRUE]
                         ELSE [h |-> [bd.h EXCEPT
                                        !.styles = Append(
                                          [@ EXCEPT ![bd.h.rowss[hd.id].style] =
                                                      StyleInit(header_style)],
                                          StyleInit(StyleKwargs(kwargs))),
                                        !.tables = Append(@, [header |-> hd.id,
                                                              body |-> bd.id,
                                                              style |-> Len(bd.h.styles) + 1])],
                               id |-> Len(bd.h.tables) + 1, err |-> FALSE]))

-----------------------------------------------------------------------------
(* Table: the sequence of its rows. *)

\* A Row or Rows object with its Style read through the reference.
RowViewIn(h, r) ==
  [items |-> h.rows[r].items, header |-> h.rows[r].header, style |-> h.styles[h.rows[r].style]]

RowsViewIn(h, g) ==
  [items |-> h.rowss[g].items, header |-> h.rowss[g].header,
   style |-> h.styles[h.rowss[g].style]]

\* CellGroup.copy: type(self)(self, header=self.header), a new group holding the
\* same items, with the header flag and no style keyword.
CellGroupCopy(group) ==
  [items |-> group.items, header |-> group.header, style |-> StyleInit(EmptyKw)]

\* A sum that puts the other group's items first.
ListLikeAddSwapped(self, other) ==
  [CellGroupCopy(self) EXCEPT !.items = other.items \o self.items]

\* ListLike.__add__: copy = self.copy(); copy._items += other._items
ListLikeAdd(self, other) ==
  [CellGroupCopy(self) EXCEPT !.items = @ \o other.items]

\* A rows property that leaves the header's rows out.
TableBodyRows(h, t) == CellGroupCopy(RowsViewIn(h, h.tables[t].body))

\* Table.rows: self.header + self.body, a Rows built for the occasion.
TableRows(h, t) ==
  ListLikeAdd(RowsViewIn(h, h.tables[t].header), RowsViewIn(h, h.tables[t].body))

\* Table.__len__
TableLen(h, t) ==
  Len(h.rowss[h.tables[t].header].items) + Len(h.rowss[h.tables[t].body].items)

\* Table.__iter__: for row in self.rows: yield row
TableIter(h, t) == TableRows(h, t).items

\* list[index]: [ok, item]; IndexError when the index is out of range
ListGetitem(items, index) ==
  IF 0 <= index /\ index < Len(items) THEN [ok |-> TRUE, item |-> items[index + 1]]
  ELSE IF index < 0 /\ -Len(items) <= index
  THEN [ok |-> TRUE, item |-> items[Len(items) + index + 1]]
  ELSE [ok |-> FALSE, item |-> 0]

\* Table.__getitem__
TableGetitem(h, t, index) ==
  LET header == h.rowss[h.tables[t].header].items
      body == h.rowss[h.tables[t].body].items
  IN  IF index < Len(header) THEN ListGetitem(header, index)
      ELSE ListGetitem(body, index - Len(header))

RECURSIVE SumWidths(_, _)
SumWidths(h, items) ==
  IF items = <<>> THEN 0 ELSE h.cells[Head(items)].width + SumWidths(h, Tail(items))

\* Table.width: [ok, width]; None (ok false) for a table without rows.
TableWidth(h, t) ==
  LET row == TableGetitem(h, t, 0)
  IN  IF row.ok THEN [ok |-> TRUE, width |-> SumWidths(h, h.rows[row.item].items)]
      ELSE [ok |-> FALSE, width |-> 0]

-----------------------------------------------------------------------------
(* Table: extend, add_border, deep_apply. *)

\* The body setter, Rows(raw_body), given a Rows: the table's body becomes a new
\* Rows holding the same Row objects, with header False and a default Style.
\* The old body Rows is dropped, so the new one takes its place in the heap.
TableSetBody(h, t, group) ==
  LET g == h.tables[t].body
  IN  [h EXCEPT !.rowss[g] = [items |-> group.items, header |-> PyFalse,
                              style |-> h.rowss[g].style],
                !.styles[h.rowss[g].style] = StyleInit(EmptyKw)]

RECURSIVE NoneCells(_)
\* [None] * n
NoneCells(n) == IF n = 0 THEN <<>> ELSE <<Val(None)>> \o NoneCells(n - 1)

\* try: row = self[i]; except IndexError: row = Row([None] * orig_width);
\* self.body.append(row).  [h, row]
ExtendRightRow(h, t, i, orig_width) ==
  Bind(TableGetitem(h, t, i),
       LAMBDA got :
         IF got.ok THEN [h |-> h, row |-> got.item]
         ELSE Bind(RowInit(h, List(NoneCells(orig_width.width)), None, EmptyKw),
                   LAMBDA made :
                     [h |-> [made.h EXCEPT !.rowss[h.tables[t].body].items =
                                             Append(@, made.id)],
                      row |-> made.id]))

\* try: other_row = other[i]; except IndexError: other_row = Row([None] *
\* other.width).  [h, items], the cells of other_row.
ExtendRightOther(h, other, i) ==
  Bind(TableGetitem(h, other, i),
       LAMBDA got :
         IF got.ok THEN [h |-> h, items |-> h.rows[got.item].items]
         ELSE Bind(CastCells(h, NoneCells(TableWidth(h, other).width)),
                   LAMBDA filler : [h |-> filler.h, items |-> filler.ids]))

RECURSIVE ExtendRight(_, _, _, _, _, _)
\* The loop of Table.extend(other, 'right') from row i on.  [None] * width
\* raises TypeError when the width is None; row.extend(other_row) appends the
\* other row's Cell objects themselves.
ExtendRight(h, t, other, i, max_len, orig_width) ==
  IF i >= max_len THEN [h |-> h, err |-> FALSE]
  ELSE IF ~TableGetitem(h, t, i).ok /\ ~orig_width.ok THEN [h |-> h, err |-> TRUE]
  ELSE Bind(ExtendRightRow(h, t, i, orig_width),
            LAMBDA own :
              IF ~TableGetitem(own.h, other, i).ok /\ ~TableWidth(own.h, other).ok
              THEN [h |-> own.h, err |-> TRUE]
              ELSE Bind(ExtendRightOther(own.h, other, i),
                        LAMBDA oth :
                          Bind([oth.h EXCEPT !.rows[own.row].items = @ \o oth.items],
                               LAMBDA h3 : ExtendRight(h3, t, other, i + 1, max_len,
                                                       orig_width))))

Max(a, b) == IF a >= b THEN a ELSE b

\* Table.extend(other, direction)
TableExtend(h, t, other, direction) ==
  IF direction = "down"
  THEN [h |-> TableSetBody(h, t, ListLikeAdd(RowsViewIn(h, h.tables[t].body),
                                             TableRows(h, other))),
        err |-> FALSE]
  ELSE IF direction = "right"
  THEN ExtendRight(h, t, other, 0, Max(TableLen(h, t), TableLen(h, other)),
                   TableWidth(h, t))
  ELSE [h |-> h, err |-> FALSE]

\* The dim arguments of the model that start with 'row' or 'hor', and with 'col'
\* or 'vert'.
RowDims == {"rows", "horizontal"}
ColDims == {"columns", "vertical"}

\* The normalisation of dim at the head of Table.add_border.
NormDim(dim) ==
  IF dim \in RowDims THEN "rows" ELSE IF dim \in ColDims THEN "cols" ELSE dim

\* The body of the inner loop of Table.add_border for one cell.
BorderCell(h, cell, r_pos, c_pos, dim, position, style) ==
  IF dim = "rows" /\ r_pos = position
  THEN IF style = BORDER_STYLE THEN CellBordersAdd(h, cell, "top")
       ELSE CellCssSetitem(h, cell, "border-top", style)
  ELSE IF dim = "cols" /\ c_pos = position
  THEN IF style = BORDER_STYLE THEN CellBordersAdd(h, cell, "left")
       ELSE CellCssSetitem(h, cell, "border-left", style)
  ELSE h

RECURSIVE BorderCellsByIndex(_, _, _, _, _, _, _)
\* An inner loop that counts cells instead of adding up their widths.
BorderCellsByIndex(h, items, r_pos, c_pos, dim, position, style) ==
  IF items = <<>> THEN h
  ELSE Bind(BorderCell(h, Head(items), r_pos, c_pos, dim, position, style),
            LAMBDA h1 : BorderCellsByIndex(h1, Tail(items), r_pos, c_pos + 1, dim,
                                           position, style))

RECURSIVE BorderCells(_, _, _, _, _, _, _)
\* The inner loop of Table.add_border over the cells of one row.
BorderCells(h, items, r_pos, c_pos, dim, position, style) ==
  IF items = <<>> THEN h
  ELSE Bind(BorderCell(h, Head(items), r_pos, c_pos, dim, position, style),
            LAMBDA h1 : BorderCells(h1, Tail(items), r_pos,
                                    c_pos + h1.cells[Head(items)].width, dim, position,
                                    style))

RECURSIVE BorderRows(_, _, _, _, _, _)
\* The outer loop of Table.add_border: for r, row in enumerate(rows)
BorderRows(h, rows, r, dim, position, style) ==
  IF rows = <<>> THEN h
  ELSE Bind(BorderCells(h, h.rows[Head(rows)].items, r, 0, dim, position, style),
            LAMBDA h1 : BorderRows(h1, Tail(rows), r + 1, dim, position, style))

\* Table.add_border(dim, position, section, style)
TableAddBorder(h, t, dim, position, section, style) ==
  LET rows == IF section = "header" THEN h.rowss[h.tables[t].header].items
              ELSE IF section = "body" THEN h.rowss[h.tables[t].body].items
              ELSE TableRows(h, t).items
  IN  BorderRows(h, rows, 0, NormDim(dim), position, style)

RECURSIVE ApplyCells(_, _, _)
\* Row.deep_apply: cell.apply(**kwargs) on every cell, overwrite left at True
ApplyCells(h, items, kwargs) ==
  IF items = <<>> THEN h
  ELSE Bind(CellApply(h, Head(items), TRUE, kwargs),
            LAMBDA h1 : ApplyCells(h1, Tail(items), kwargs))

RECURSIVE ApplyRows(_, _, _)
\* Rows.deep_apply
ApplyRows(h, rows, kwargs) ==
  IF rows = <<>> THEN h
  ELSE Bind(ApplyCells(h, h.rows[Head(rows)].items, kwargs),
            LAMBDA h1 : ApplyRows(h1, Tail(rows), kwargs))

\* Table.deep_apply(**kwargs): the header, then the body
TableDeepApply(h, t, kwargs) ==
  Bind(ApplyRows(h, h.rowss[h.tables[t].header].items, kwargs),
       LAMBDA h1 : ApplyRows(h1, h1.rowss[h1.tables[t].body].items, kwargs))

-----------------------------------------------------------------------------
(* Rendering. *)

\* indent*indents
Indent(indents) == [i \in 1..indents |-> "  "]

NL == <<"\n">>
TAB == <<"\t">>

\* Cell.__str__
CellStr(cell) == IF cell.value = None THEN <<>> ELSE <<cell.value>>

\* Cell.to_html
CellToHtml(cell) ==
  LET tag == IF ~Falsy(cell.header) THEN "th" ELSE "td"
      a1 == IF ~Falsy(cell.header) THEN << <<"scope=\"col\"">> >> ELSE <<>>
      a2 == IF cell.width # 1 THEN Append(a1, <<"colspan=", ToString(cell.width)>>) ELSE a1
      a3 == IF cell.height # 1 THEN Append(a2, <<"rowspan=", ToString(cell.height)>>)
            ELSE a2
      style_str == StyleStr(cell.style)
      attributes == IF style_str # <<>> THEN Append(a3, style_str) ELSE a3
      attributes_html == IF attributes # <<>> THEN <<" ">> \o Join(attributes, <<" ">>)
                         ELSE <<>>
      value == IF cell.value = None THEN <<>> ELSE <<cell.value>>
  IN  <<"<", tag>> \o attributes_html \o <<">">> \o value \o <<"</", tag, ">">>

\* The cell Cell.copy makes, as a value: Row.to_html keeps it to itself.
CellCopyView(h, c) ==
  [CellViewIn(h, c) EXCEPT !.style = StyleCopy(h.styles[h.cells[c].style])]

\* A row that writes its header flag into the cell itself, without copying it.
RowFinalCellInPlace(h, row_header, c) ==
  IF row_header # h.cells[c].header
  THEN [h |-> [h EXCEPT !.cells[c].header = row_header],
        cell |-> [CellViewIn(h, c) EXCEPT !.header = row_header]]
  ELSE [h |-> h, cell |-> CellViewIn(h, c)]

\* The final_cell of Row.to_html: a copy carrying the row's header flag when the
\* flags differ, the cell itself otherwise.
RowFinalCell(h, row_header, c) ==
  IF row_header # h.cells[c].header
  THEN [h |-> h, cell |-> [CellCopyView(h, c) EXCEPT !.header = row_header]]
  ELSE [h |-> h, cell |-> CellViewIn(h, c)]

RECURSIVE RowCellLines(_, _, _, _)
\* The cell lines of Row.to_html
RowCellLines(h, row_header, items, indents) ==
  IF items = <<>> THEN [h |-> h, lines |-> <<>>]
  ELSE Bind(RowFinalCell(h, row_header, Head(items)),
            LAMBDA final :
              Bind(RowCellLines(final.h, row_header, Tail(items), indents),
                   LAMBDA rest :
                     [h |-> rest.h,
                      lines |-> << Indent(indents + 1) \o CellToHtml(final.cell) >>
                                \o rest.lines]))

\* html_lines of Row.to_html, for a Row given as [items, header, style]
RowHtmlLines(h, row, indents) ==
  Bind(RowCellLines(h, row.header, row.items, indents),
       LAMBDA cells :
         [h |-> cells.h,
          lines |-> << Indent(indents) \o <<"<tr">> \o to_attr_str(row.style) \o <<">">> >>
                    \o cells.lines
                    \o << Indent(indents) \o <<"</tr>">> >>])

\* Row.to_html
RowToHtml(h, row, indents) ==
  Bind(RowHtmlLines(h, row, indents),
       LAMBDA r : [h |-> r.h, out |-> Join(r.lines, NL)])

\* The copy of a row that Rows.to_html renders: row.copy(), with the header flag
\* of the Rows when the row has none.
RowsRowCopy(h, rows_header, r) ==
  LET copy == CellGroupCopy(RowViewIn(h, r))
  IN  IF copy.header = None THEN [copy EXCEPT !.header = rows_header] ELSE copy

RECURSIVE RowsRowLines(_, _, _, _)
\* One entry of html_lines per row of Rows.to_html
RowsRowLines(h, rows_header, items, indents) ==
  IF items = <<>> THEN [h |-> h, lines |-> <<>>]
  ELSE Bind(RowToHtml(h, RowsRowCopy(h, rows_header, Head(items)), indents + 1),
            LAMBDA row :
              Bind(RowsRowLines(row.h, rows_header, Tail(items), indents),
                   LAMBDA rest : [h |-> rest.h, lines |-> <<row.out>> \o rest.lines]))

\* Rows.to_html, for a Rows given as [items, header, style]
RowsToHtml(h, rows, indents) ==
  LET tag == IF ~Falsy(rows.header) THEN "thead" ELSE "tbody"
  IN  Bind(RowsRowLines(h, rows.header, rows.items, indents),
           LAMBDA body :
             [h |-> body.h,
              out |-> Join(<< Indent(indents) \o <<"<", tag>> \o to_attr_str(rows.style)
                              \o <<">">> >>
                           \o body.lines
                           \o << Indent(indents) \o <<"</", tag, ">">> >>, NL)])

\* One section of Table.to_html: rendered when it has rows.  [h, lines]
TableSectionHtml(h, g) ==
  IF Len(h.rowss[g].items) > 0
  THEN Bind(RowsToHtml(h, RowsViewIn(h, g), 1),
            LAMBDA section : [h |-> section.h, lines |-> <<section.out>>])
  ELSE [h |-> h, lines |-> <<>>]

\* Table.to_html(indents=0)
TableToHtml(h, t) ==
  Bind(TableSectionHtml(h, h.tables[t].header),
       LAMBDA hd :
         Bind(TableSectionHtml(hd.h, hd.h.tables[t].body),
              LAMBDA bd :
                [h |-> bd.h,
                 out |-> Join(<< <<"<table">> \o to_attr_str(h.styles[h.tables[t].style])
                                 \o <<">">> >>
                              \o hd.lines \o bd.lines \o << <<"</table>">> >>, NL)]))

\* Row.to_text(delim)
RowToText(h, items, delim) ==
  Join([i \in 1..Len(items) |-> CellStr(CellViewIn(h, items[i]))], delim)

\* Rows.to_text(delim, row_delim)
RowsToText(h, rows, delim, row_delim) ==
  Join([i \in 1..Len(rows) |-> RowToText(h, h.rows[rows[i]].items, delim)], row_delim)

\* The sections of Table.to_text: the non-empty ones of header and body.
TableTextSections(h, t) ==
  LET header == h.rowss[h.tables[t].header].items
      body == h.rowss[h.tables[t].body].items
      s1 == IF Len(header) > 0 THEN << RowsToText(h, header, TAB, NL) >> ELSE <<>>
  IN  IF Len(body) > 0 THEN Append(s1, RowsToText(h, body, TAB, NL)) ELSE s1

\* A to_text that leaves an empty line between the sections.
TableToTextBlankLine(h, t) == Join(TableTextSections(h, t), NL \o NL)

\* Table.to_text(delim='\t', row_delim='\n')
TableToText(h, t) == Join(TableTextSections(h, t), NL)

-----------------------------------------------------------------------------
(* The calls on rows and tables. *)

MaxTables == 2
MaxTableSteps == 3

RowIds == 1..Len(rowHeap)
Tables == 1..Len(tableHeap)

\* Row(raw_row, header=header, **kwargs) as the model calls it
RowInputs ==
  { <<List(<<Map([value |-> "x", header |-> PyTrue]), Val("y")>>), PyFalse, EmptyKw>>,
    <<List(<<Val("a"), Val("7")>>), None, ("bold" :> PyTrue)>>,
    <<List(<<Val("a")>>), None, ("foo" :> "bar")>> }

\* Table(body, header=header, header_len=header_len) as the model calls it; the
\* rows made so far may be given as the body.
TableInputs ==
  { <<List(<<List(<<Val("a"), Val("b")>>), List(<<Val("c"), Val("7")>>)>>),
      List(<<Val("h1"), Val("h2")>>), <<>>>>,
    <<List(<<List(<<Val("h")>>), List(<<Map([value |-> "x", header |-> PyFalse])>>)>>),
      NoRaw, <<1>>>>,
    <<NoRaw, List(<<Val("h1")>>), <<>>>>,
    <<List(<<List(<<Map([value |-> "w", width |-> 2]), Val("z")>>)>>), NoRaw, <<>>>>,
    <<NoRaw, NoRaw, <<>>>> }
  \cup { <<List(<<RowRef(r)>>), NoRaw, <<>>>> : r \in RowIds }

\* add_border(dim, position, section, style) as the model calls it
BorderInputs ==
  { <<"rows", 1, None, BORDER_STYLE>>,
    <<"horizontal", 0, "header", BORDER_STYLE>>,
    <<"columns", 0, "body", "2px dashed red">>,
    <<"vertical", 2, None, BORDER_STYLE>> }

DeepApplyInputs == { ("align" :> "center") }

\* Row(raw_row, header=header, **kwargs)
NewRow(raw_row, header, kwargs) ==
  /\ steps < MaxTableSteps
  /\ LET r == RowInit(Heap, raw_row, header, kwargs)
     IN  /\ SetHeap(r.h)
         /\ Call("Row", r.id, [raw_row |-> raw_row, header |-> header, kwargs |-> kwargs],
                 r.err)

\* Table(body, header=header, header_len=header_len)
NewTable(body, header, header_len) ==
  /\ steps < MaxTableSteps
  /\ Len(tableHeap) < MaxTables
  /\ LET r == TableInit(Heap, body, header, header_len, EmptyKw)
     IN  /\ SetHeap(r.h)
         /\ Call("Table", r.id, [body |-> body, header |-> header,
                                 header_len |-> header_len], r.err)

\* table.extend(other, direction)
ExtendTable(t, other, direction) ==
  /\ steps < MaxTableSteps
  /\ LET r == TableExtend(Heap, t, other, direction)
     IN  /\ SetHeap(r.h)
         /\ Call("extend", t, [other |-> other, direction |-> direction], r.err)

\* table.add_border(dim, position, section, style)
AddBorderTable(t, dim, position, section, style) ==
  /\ steps < MaxTableSteps
  /\ SetHeap(TableAddBorder(Heap, t, dim, position, section, style))
  /\ Call("add_border", t, [dim |-> dim, position |-> position, section |-> section,
                            style |-> style], FALSE)

\* table.deep_apply(**kwargs)
DeepApplyTable(t, kwargs) ==
  /\ steps < MaxTableSteps
  /\ SetHeap(TableDeepApply(Heap, t, kwargs))
  /\ Call("deep_apply", t, kwargs, FALSE)

\* row.to_html()
RenderRowHtml(r) ==
  /\ steps < MaxTableSteps
  /\ LET res == RowToHtml(Heap, RowViewIn(Heap, r), 0)
     IN  /\ SetHeap(res.h)
         /\ CallOut("Row.to_html", r, <<>>, FALSE, res.out)

\* table.to_html()
RenderTableHtml(t) ==
  /\ steps < MaxTableSteps
  /\ LET res == TableToHtml(Heap, t)
     IN  /\ SetHeap(res.h)
         /\ CallOut("Table.to_html", t, <<>>, FALSE, res.out)

\* table.to_text()
RenderTableText(t) ==
  /\ steps < MaxTableSteps
  /\ UNCHANGED <<styleHeap, cellHeap, rowHeap, rowsHeap, tableHeap, copiedFrom>>
  /\ CallOut("Table.to_text", t, <<>>, FALSE, TableToText(Heap, t))

\* The indexes the model asks a table for.
IndexInputs == -2..3

\* table[index]: the Row, or IndexError
GetitemTable(t, index) ==
  /\ steps < MaxTableSteps
  /\ UNCHANGED <<styleHeap, cellHeap, rowHeap, rowsHeap, tableHeap, copiedFrom>>
  /\ LET got == TableGetitem(Heap, t, index)
     IN  CallOut("getitem", t, index, ~got.ok, IF got.ok THEN <<got.item>> ELSE <<>>)

NextTable ==
  \/ \E i \in RowInputs : NewRow(i[1], i[2], i[3])
  \/ \E i \in TableInputs : NewTable(i[1], i[2], i[3])
  \/ \E t \in Tables, other \in Tables, direction \in {"down", "right"} :
       ExtendTable(t, other, direction)
  \/ \E t \in Tables, i \in BorderInputs : AddBorderTable(t, i[1], i[2], i[3], i[4])
  \/ \E t \in Tables, kwargs \in DeepApplyInputs : DeepApplyTable(t, kwargs)
  \/ \E r \in RowIds : RenderRowHtml(r)
  \/ \E t \in Tables : RenderTableHtml(t)
  \/ \E t \in Tables : RenderTableText(t)
  \/ \E t \in Tables, index \in IndexInputs : GetitemTable(t, index)

\* The calls on rows and tables: construction, extend, add_border, deep_apply and
\* rendering.
SpecTable == Init /\ [][NextTable]_vars

-----------------------------------------------------------------------------
(* Rows and tables: header flags, row styles, rendering, the row sequence. *)

RECURSIVE Concat(_)
\* The sequences of a sequence, one after the other.
Concat(seqs) == IF seqs = <<>> THEN <<>> ELSE Head(seqs) \o Concat(Tail(seqs))

RECURSIVE Split(_, _)
\* s.split(d) on tokens: the stretches between the occurrences of d.
Split(s, d) ==
  IF \A i \in 1..Len(s) : s[i] # d THEN <<s>>
  ELSE LET k == CHOOSE k \in 1..Len(s) : s[k] = d /\ \A j \in 1..(k - 1) : s[j] # d
       IN  <<SubSeq(s, 1, k - 1)>> \o Split(SubSeq(s, k + 1, Len(s)), d)

\* The tags of the cells of an HTML text, in order.
CellTags(out) ==
  LET opens == SelectSeq([i \in 1..(Len(out) - 1) |-> i],
                         LAMBDA i : out[i] = "<" /\ out[i + 1] \in {"th", "td"})
  IN  [n \in 1..Len(opens) |-> out[opens[n] + 1]]

\* The tag a cell is to get: its own flag when that is True or False, else the
\* flag of its row, else the flag of the Rows around the row.
TagByOwnFlag(cell_header, row_header, rows_header) ==
  LET flag == IF cell_header # None THEN cell_header
              ELSE IF row_header # None THEN row_header
              ELSE rows_header
  IN  IF flag = PyTrue THEN "th" ELSE "td"

RowTagsByOwnFlag(r, rows_header) ==
  [i \in 1..Len(rowHeap[r].items) |->
     TagByOwnFlag(cellHeap[rowHeap[r].items[i]].header, rowHeap[r].header, rows_header)]

RowsTagsByOwnFlag(g) ==
  Concat([i \in 1..Len(rowsHeap[g].items) |->
            RowTagsByOwnFlag(rowsHeap[g].items[i], rowsHeap[g].header)])

\* C6: in the HTML of a Row or a Table, a cell whose own header flag is True or
\* False is emitted as <th> or <td> by that flag; the flag of the Row, and then
\* of the Rows, decides only for cells (and rows) whose own flag is None.
C6_OwnHeaderFlagDecides ==
  /\ last.op = "Row.to_html" => CellTags(last.out) = RowTagsByOwnFlag(last.target, None)
  /\ last.op = "Table.to_html" =>
       CellTags(last.out) = RowsTagsByOwnFlag(tableHeap[last.target].header)
                            \o RowsTagsByOwnFlag(tableHeap[last.target].body)

\* The attributes of the <tr> tags of an HTML text, in order.
TrAttrs(out) ==
  LET opens == SelectSeq([i \in 1..Len(out) |-> i], LAMBDA i : out[i] = "<tr")
      close(i) == CHOOSE j \in (i + 1)..Len(out) :
                    out[j] = ">" /\ \A k \in (i + 1)..(j - 1) : out[k] # ">"
  IN  [n \in 1..Len(opens) |-> SubSeq(out, opens[n] + 1, close(opens[n]) - 1)]

\* The <tr> attributes Row.to_html emits for a row called directly.
OwnTrAttrs(r) == TrAttrs(RowToHtml(Heap, RowViewIn(Heap, r), 0).out)[1]

\* C7: for every Row with a non-default style, Table.to_html emits the same <tr>
\* style attribute as Row.to_html called on that row.
C7_RowStyleRendered ==
  last.op = "Table.to_html" =>
    LET rows == TableIter(Heap, last.target)
    IN  \A i \in 1..Len(rows) :
          styleHeap[rowHeap[rows[i]].style] # StyleInit(EmptyKw) =>
            TrAttrs(last.out)[i] = OwnTrAttrs(rows[i])

RenderOps == {"Table.to_html", "Table.to_text"}

\* C8: Table.to_html and Table.to_text leave every Cell, Row, Rows and Style as it
\* was, and a render that directly follows the same render of the same table
\* returns the same string.
C8_RenderingReadsOnly ==
  [][last'.op \in RenderOps =>
       /\ styleHeap' = styleHeap
       /\ cellHeap' = cellHeap
       /\ rowHeap' = rowHeap
       /\ rowsHeap' = rowsHeap
       /\ tableHeap' = tableHeap
       /\ (last.op = last'.op /\ last.target = last'.target => last'.out = last.out)]_vars

\* A table with a header row has just been rendered to HTML: its cells carry no
\* flag of their own, so each was rendered through a copy flagged as a header.
C8_Witness ==
  /\ last.op = "Table.to_html"
  /\ \E i \in 1..Len(rowsHeap[tableHeap[last.target].header].items) :
       LET r == rowsHeap[tableHeap[last.target].header].items[i]
       IN  \E j \in 1..Len(rowHeap[r].items) : cellHeap[rowHeap[r].items[j]].header = None

\* str(cell) of every cell of a row; a row without cells is one empty string.
RowStrings(r) ==
  IF rowHeap[r].items = <<>> THEN << <<>> >>
  ELSE [i \in 1..Len(rowHeap[r].items) |-> CellStr(CellView(rowHeap[r].items[i]))]

SectionStrings(g) ==
  [i \in 1..Len(rowsHeap[g].items) |-> RowStrings(rowsHeap[g].items[i])]

\* The text split at the newlines, each line split at the tabs.
TextGrid(out) ==
  [i \in 1..Len(Split(out, "\n")) |-> Split(Split(out, "\n")[i], "\t")]

\* The text Table.to_text is to return, with the given lines between a
\* non-empty header and a non-empty body.
TextAsGrid(out, t, between) ==
  LET header == SectionStrings(tableHeap[t].header)
      body == SectionStrings(tableHeap[t].body)
  IN  IF header # <<>> /\ body # <<>> THEN TextGrid(out) = header \o between \o body
      ELSE IF header # <<>> THEN TextGrid(out) = header
      ELSE IF body # <<>> THEN TextGrid(out) = body
      ELSE out = <<>>

\* C9: Table.to_text joins cells with tabs and rows with newlines, with one
\* empty line between a non-empty header and a non-empty body, and no separator
\* when only one section has rows.
C9_BlankLineBetweenSections ==
  last.op = "Table.to_text" => TextAsGrid(last.out, last.target, << << <<>> >> >>)

\* C9, as the code has it: Table.to_text joins cells with tabs and rows with
\* newlines, the last header row and the first body row being consecutive lines
\* (one newline, no empty line, between the sections), and no separator when
\* only one section has rows.
C9_SectionsOnConsecutiveLines ==
  last.op = "Table.to_text" => TextAsGrid(last.out, last.target, <<>>)

\* A table with header rows and body rows has just been rendered to text.
C9_Witness ==
  /\ last.op = "Table.to_text"
  /\ rowsHeap[tableHeap[last.target].header].items # <<>>
  /\ rowsHeap[tableHeap[last.target].body].items # <<>>

\* C10: after construction, extend, add_border and deep_apply in any order,
\* len(table) is len(table.header) + len(table.body), and iterating the table
\* yields the header's rows followed by the body's rows, in order.
C10_RowsAreHeaderThenBody ==
  \A t \in Tables :
    /\ TableLen(Heap, t) = Len(rowsHeap[tableHeap[t].header].items)
                           + Len(rowsHeap[tableHeap[t].body].items)
    /\ TableIter(Heap, t) = rowsHeap[tableHeap[t].header].items
                            \o rowsHeap[tableHeap[t].body].items
    /\ Len(TableIter(Heap, t)) = TableLen(Heap, t)

\* A table with header rows has just been extended and has body rows too.
C10_Witness ==
  /\ last.op = "extend"
  /\ ~last.err
  /\ rowsHeap[tableHeap[last.target].header].items # <<>>
  /\ Len(rowsHeap[tableHeap[last.target].body].items) > 1

-----------------------------------------------------------------------------
(* Tables: indexing, extend, add_border, unknown keywords. *)

HeaderItems(t) == rowsHeap[tableHeap[t].header].items
BodyItems(t) == rowsHeap[tableHeap[t].body].items

\* C11: for 0 <= i < len(table), table[i] is header[i] when i < len(header) and
\* body[i - len(header)] otherwise; for every other integer i, negative ones
\* included, table[i] fails with an index error and returns no row.
C11_IndexByPosition ==
  last.op = "getitem" =>
    LET i == last.arg
        header == HeaderItems(last.target)
        body == BodyItems(last.target)
    IN  IF 0 <= i /\ i < Len(header) + Len(body)
        THEN /\ ~last.err
             /\ last.out = << IF i < Len(header) THEN header[i + 1]
                              ELSE body[i - Len(header) + 1] >>
        ELSE last.err /\ last.out = <<>>

\* The values of the cells at places from..to of a row are all None.
FillerCells(cells, items, from, to) ==
  \A j \in from..to : cells[items[j]].value = None

\* C12: table.extend(other, 'right') completes for any two tables, one without
\* rows included; afterwards len(table) is the larger of the two lengths, the
\* header rows are the same, every new row is in the body, and row i is its old
\* cells (or, if new, as many None cells as the table was wide) followed by the
\* cells of other's row i (or, if there is none, by other.width None cells).
C12_ExtendRightPads ==
  [][\A t \in Tables, other \in Tables :
       (/\ last'.op = "extend"
        /\ last'.arg.direction = "right"
        /\ last'.target = t
        /\ last'.arg.other = other) =>
         LET old == TableIter(Heap, t)
             oth == TableIter(Heap, other)
             new == TableIter(Heap, t)'
             width == TableWidth(Heap, t).width
             other_width == TableWidth(Heap, other).width
         IN  /\ ~last'.err
             /\ Len(new) = Max(Len(old), Len(oth))
             /\ HeaderItems(t)' = HeaderItems(t)
             /\ \A i \in 1..Len(new) :
                  LET items == rowHeap'[new[i]].items
                      own == IF i <= Len(old) THEN Len(rowHeap[old[i]].items) ELSE width
                      added == IF i <= Len(oth) THEN Len(rowHeap[oth[i]].items)
                               ELSE other_width
                  IN  /\ Len(items) = own + added
                      /\ IF i <= Len(old)
                         THEN /\ new[i] = old[i]
                              /\ SubSeq(items, 1, own) = rowHeap[old[i]].items
                         ELSE FillerCells(cellHeap', items, 1, own)
                      /\ IF i <= Len(oth)
                         THEN SubSeq(items, own + 1, own + added) = rowHeap[oth[i]].items
                         ELSE FillerCells(cellHeap', items, own + 1, own + added)]_vars

\* C13: table.extend(other, 'down') leaves the table's header rows as they are
\* and makes the body the old body rows followed by other's header rows and then
\* other's body rows, so len(table) grows by len(other); another table given as
\* other keeps its rows.
C13_ExtendDownAppendsAllRows ==
  [][\A t \in Tables, other \in Tables :
       (/\ last'.op = "extend"
        /\ last'.arg.direction = "down"
        /\ last'.target = t
        /\ last'.arg.other = other) =>
         /\ ~last'.err
         /\ HeaderItems(t)' = HeaderItems(t)
         /\ BodyItems(t)' = BodyItems(t) \o HeaderItems(other) \o BodyItems(other)
         /\ TableLen(Heap, t)' = TableLen(Heap, t) + TableLen(Heap, other)
         /\ other # t => /\ HeaderItems(other)' = HeaderItems(other)
                         /\ BodyItems(other)' = BodyItems(other)]_vars

\* A table with body rows has just been extended downwards by another table that
\* has header rows and body rows.
C13_Witness ==
  /\ last.op = "extend"
  /\ last.arg.direction = "down"
  /\ last.arg.other # last.target
  /\ HeaderItems(last.arg.other) # <<>>
  /\ BodyItems(last.arg.other) # <<>>
  /\ Len(BodyItems(last.target)) > Len(HeaderItems(last.arg.other))
                                   + Len(BodyItems(last.arg.other))

\* The rows add_border works on: a section's, or the header's then the body's.
SectionItems(t, section) ==
  IF section = "header" THEN HeaderItems(t)
  ELSE IF section = "body" THEN BodyItems(t)
  ELSE HeaderItems(t) \o BodyItems(t)

\* The column a cell of a row starts in: the widths of the cells before it.
StartColumn(r, j) == SumWidths(Heap, SubSeq(rowHeap[r].items, 1, j - 1))

\* The cells add_border is to mark: those of the row at the position, or in
\* every row those that start in the column at the position.
TargetedCells(rows, dim, position) ==
  IF dim \in RowDims
  THEN IF position < Len(rows)
       THEN {rowHeap[rows[position + 1]].items[j] :
               j \in 1..Len(rowHeap[rows[position + 1]].items)}
       ELSE {}
  ELSE UNION {{rowHeap[rows[i]].items[j] :
                 j \in {k \in 1..Len(rowHeap[rows[i]].items) :
                          StartColumn(rows[i], k) = position}} :
              i \in 1..Len(rows)}

\* The Style of a marked cell: the border name added with the default style, the
\* css entry set with another.
MarkedStyle(s, dim, style) ==
  IF style = BORDER_STYLE
  THEN [s EXCEPT !.borders = @ \cup {IF dim \in RowDims THEN "top" ELSE "left"}]
  ELSE [s EXCEPT !.css = DictSet(@, IF dim \in RowDims THEN "border-top"
                                    ELSE "border-left", style)]

C15_UnknownKeyRejected ==
  /\ (last.op = "Row" /\ (DOMAIN last.arg.kwargs) \ MetaKeys # {}) =>
       last.err /\ last.target = 0
  /\ (/\ last.op = "Cell"
      /\ last.arg.raw_cell.t # "cell"
      /\ \/ (DOMAIN last.arg.kwargs) \ (MetaKeys \cup AttrKeys) # {}
         \/ /\ last.arg.raw_cell.t = "map"
            /\ (DOMAIN last.arg.raw_cell.m) \ (MetaKeys \cup AttrKeys \cup {"value"}) # {}) =>
       last.err /\ last.target = 0

-----------------------------------------------------------------------------
(* Table.make_freq_table: numbers and their formats. *)

RECURSIVE Pow10(_)
Pow10(k) == IF k = 0 THEN 1 ELSE 10 * Pow10(k - 1)

RECURSIVE ZeroPad(_, _)
\* The numeral of n, with zeros in front up to the given number of digits.
ZeroPad(n, digits) ==
  IF digits <= 0 THEN ""
  ELSE ZeroPad(n \div 10, digits - 1) \o ToString(n % 10)

RECURSIVE FormatThousands(_)
\* f'{count:,}'
FormatThousands(n) ==
  IF n < 1000 THEN ToString(n)
  ELSE FormatThousands(n \div 1000) \o "," \o ZeroPad(n % 1000, 3)

\* The integer nearest to num/den, a tie going to the even one.  (A float is
\* rounded by its binary value; the percentages of the model are never half-way
\* between two numerals of the format.)
RoundHalfEven(num, den) ==
  LET q == num \div den
      r == num % den
  IN  IF 2 * r > den THEN q + 1
      ELSE IF 2 * r < den THEN q
      ELSE IF q % 2 = 0 THEN q ELSE q + 1

\* '{:0.<places>f}'.format(num/den)
FormatFixed(num, den, places) ==
  LET scaled == RoundHalfEven(num * Pow10(places), den)
  IN  IF places = 0 THEN ToString(scaled)
      ELSE ToString(scaled \div Pow10(places)) \o "." \o ZeroPad(scaled % Pow10(places), places)

RECURSIVE LeadingZeros(_, _)
\* -floor(log10(num/den)) for 0 < num/den < 1: the place of the first digit
\* after the point that is not zero.
LeadingZeros(num, den) ==
  IF num * 10 >= den THEN 1 ELSE 1 + LeadingZeros(num * 10, den)

\* A get_round_to that gives the same number of decimals to every number.
get_round_to_fixed(num, den, decimals) ==
  IF num = 0 THEN [ok |-> FALSE, value |-> 0] ELSE [ok |-> TRUE, value |-> decimals]

\* get_round_to(num/den, decimals): [ok, value]; math.log10 raises ValueError
\* for 0.
get_round_to(num, den, decimals) ==
  IF num = 0 THEN [ok |-> FALSE, value |-> 0]
  ELSE IF num < den THEN [ok |-> TRUE, value |-> decimals - 1 + LeadingZeros(num, den)]
  ELSE [ok |-> TRUE, value |-> decimals]

\* partially_order(unordered, order)
partially_order(unordered, order) ==
  LET input_set == {unordered[i] : i \in 1..Len(unordered)}
      ordered == SelectSeq(order, LAMBDA element : element \in input_set)
      ordered_set == {ordered[i] : i \in 1..Len(ordered)}
  IN  ordered \o SelectSeq(unordered, LAMBDA element : element \notin ordered_set)

\* list[:n]
PySliceTo(seq, n) ==
  IF n >= 0 THEN SubSeq(seq, 1, IF n < Len(seq) THEN n ELSE Len(seq))
  ELSE SubSeq(seq, 1, IF Len(seq) + n > 0 THEN Len(seq) + n ELSE 0)

-----------------------------------------------------------------------------
(* Table.make_freq_table *)

\* The keys of the frequency mappings of the model, in ascending order.
FreqKeys == <<"a", "b", "c">>

KeyIndex(key) == CHOOSE i \in 1..Len(FreqKeys) : FreqKeys[i] = key

\* A sort key that puts equal counts in descending order of their values.
FreqItemBeforeTiesDescending(a, b) ==
  a[2] > b[2] \/ (a[2] = b[2] /\ KeyIndex(a[1]) > KeyIndex(b[1]))

\* key=lambda item: (-item[1], item[0]): a sorts before b
FreqItemBefore(a, b) ==
  a[2] > b[2] \/ (a[2] = b[2] /\ KeyIndex(a[1]) < KeyIndex(b[1]))

RECURSIVE SortItems(_)
\* sorted(freqs.items(), key=lambda item: (-item[1], item[0]))
SortItems(S) ==
  IF S = {} THEN <<>>
  ELSE LET first == CHOOSE x \in S : \A y \in S \ {x} : FreqItemBefore(x, y)
       IN  <<first>> \o SortItems(S \ {first})

\* all_items: sorted by count and key, or put in the custom order
FreqAllItems(freqs, order) ==
  LET sorted == SortItems({<<key, freqs[key]>> : key \in DOMAIN freqs})
      keys == [i \in 1..Len(sorted) |-> sorted[i][1]]
      reordered_keys == partially_order(keys, order)
  IN  IF order # <<>>
      THEN [i \in 1..Len(reordered_keys) |-> <<reordered_keys[i], freqs[reordered_keys[i]]>>]
      ELSE sorted

RECURSIVE SumCounts(_)
\* sum([row[1] for row in all_items])
SumCounts(items) == IF items = <<>> THEN 0 ELSE Head(items)[2] + SumCounts(Tail(items))

\* items and trunc: the first max_rows items when there are more than max_rows.
\* max_rows is <<>> for None and <<n>> for n.
FreqShown(all_items, max_rows) ==
  IF max_rows # <<>> /\ Len(all_items) > max_rows[1]
  THEN [items |-> PySliceTo(all_items, max_rows[1]), trunc |-> TRUE]
  ELSE [items |-> all_items, trunc |-> FALSE]

RECURSIVE MaxRoundTo(_, _, _)
\* The loop over items that computes max_round_to.  [err, value]: 100*count/total
\* raises ZeroDivisionError for a total of 0, get_round_to ValueError for a
\* count of 0.
MaxRoundTo(items, total, max_round_to) ==
  IF items = <<>> THEN [err |-> "", value |-> max_round_to]
  ELSE IF total = 0 THEN [err |-> "ZeroDivisionError", value |-> 0]
  ELSE LET round_to == get_round_to(100 * Head(items)[2], total, 1)
       IN  IF ~round_to.ok THEN [err |-> "ValueError: math domain error", value |-> 0]
           ELSE MaxRoundTo(Tail(items), total,
                           IF round_to.value > max_round_to THEN round_to.value
                           ELSE max_round_to)

\* format_str.format(num/den) with format_str = f'{{:0.{max_round_to}f}} %'
FormatPercent(num, den, max_round_to) == FormatFixed(num, den, max_round_to) \o " %"

\* The percent cell of a data row: the whole number, or the formatted percentage.
PercentCell(count, total, max_round_to) ==
  IF (100 * count) % total = 0
  THEN Map([value |-> ToString((100 * count) \div total), align |-> "left"])
  ELSE Map([value |-> FormatPercent(100 * count, total, max_round_to), align |-> "right"])

\* label_cells: the label of the value, or what the splitter makes of the value.
\* splitter is <<>> for None and <<f>> for a function f.
LabelCells(value, labels, splitter) ==
  IF splitter = <<>> THEN << Val(IF value \in DOMAIN labels THEN labels[value] ELSE value) >>
  ELSE splitter[1][value]

RECURSIVE FreqRows(_, _, _, _)
\* The loop that builds the data rows from row row_num on.  labels_len is <<>>
\* for None.  [err, rows, labels_len]
FreqRows(items, row_num, labels_len, p) ==
  IF items = <<>> THEN [err |-> "", rows |-> <<>>, labels_len |-> labels_len]
  ELSE
    LET value == Head(items)[1]
        count == Head(items)[2]
        label_cells == LabelCells(value, p.labels, p.splitter)
        this_labels_len == IF p.splitter = <<>> THEN 1 ELSE Len(label_cells)
        row == label_cells
               \o << Map([value |-> FormatThousands(count), align |-> "right"]),
                     PercentCell(count, p.total, p.max_round_to) >>
        ranked == IF p.ranks THEN << Val(ToString(row_num)) >> \o row ELSE row
    IN  IF p.splitter # <<>> /\ labels_len # <<>> /\ this_labels_len # labels_len[1]
        THEN [err |-> "ValueError: Splitter returned inconsistent number of columns",
              rows |-> <<>>, labels_len |-> labels_len]
        ELSE Bind(FreqRows(Tail(items), row_num + 1,
                           IF p.splitter = <<>> \/ labels_len = <<>> THEN <<this_labels_len>>
                           ELSE labels_len, p),
                  LAMBDA rest : [err |-> rest.err,
                                 rows |-> << List(ranked) >> \o rest.rows,
                                 labels_len |-> rest.labels_len])

\* The ellipsis row appended when the items were truncated.
EllipsisRow == List(<< Map([value |-> "...", width |-> 3, align |-> "center"]) >>)

\* A summary row whose percentage is written as a data row writes a whole number.
SummaryRowWholeNumber(total, max_round_to, ranks) ==
  LET summary == << Val("(Total)"),
                    Map([value |-> FormatThousands(total), align |-> "right"]),
                    PercentCell(total, total, max_round_to) >>
  IN  List(IF ranks THEN << Val("") >> \o summary ELSE summary)

\* The summary row.
SummaryRow(total, max_round_to, ranks) ==
  LET summary == << Val("(Total)"),
                    Map([value |-> FormatThousands(total), align |-> "right"]),
                    Val(FormatPercent(100, 1, max_round_to)) >>
  IN  List(IF ranks THEN << Val("") >> \o summary ELSE summary)

\* default_headers, a later key of the dict display replacing an equal earlier one
DefaultHeaders(labels_len) ==
  ((2 + labels_len) :> Map([value |-> "Percent", align |-> "right"]))
  @@ ((1 + labels_len) :> Map([value |-> "Count", align |-> "right"]))
  @@ (1 :> Map([value |-> "Value", width |-> labels_len]))
  @@ (0 :> Val(""))

RECURSIVE SortedInts(_)
\* sorted() of a set of integers
SortedInts(S) ==
  IF S = {} THEN <<>>
  ELSE LET least == CHOOSE x \in S : \A y \in S : x <= y
       IN  <<least>> \o SortedInts(S \ {least})

\* headers_row: the header cells by column number, without column 0 when there
\* are no ranks.
HeadersRow(headers, ranks) ==
  LET columns == SelectSeq(SortedInts(DOMAIN headers), LAMBDA i : i # 0 \/ ranks)
  IN  [n \in 1..Len(columns) |-> headers[columns[n]]]

\* What make_freq_table returns when it raises: no table, and the headers
\* mapping as it was given.
FreqRaise(h, headers, error) == [h |-> h, id |-> 0, err |-> error, headers |-> headers]

\* Table.make_freq_table(freqs, labels, headers, max_rows, ranks, splitter, order).
\* [h, id, err, headers]: err is '' or the exception; headers is the caller's
\* mapping after the call, into which the default header cells were written.
MakeFreqTable(h, freqs, labels, headers, max_rows, ranks, splitter, order) ==
  IF DOMAIN freqs = {} THEN FreqRaise(h, headers, "ValueError: Frequency dict is empty!")
  ELSE
    Bind(FreqAllItems(freqs, order), LAMBDA all_items :
    Bind(FreqShown(all_items, max_rows), LAMBDA shown :
    Bind(SumCounts(all_items), LAMBDA total :
    Bind(MaxRoundTo(shown.items, total, 0), LAMBDA round :
      IF round.err # "" THEN FreqRaise(h, headers, round.err)
      ELSE
        Bind(FreqRows(shown.items, 1, <<>>,
                      [total |-> total, max_round_to |-> round.value, labels |-> labels,
                       ranks |-> ranks, splitter |-> splitter]), LAMBDA data :
          IF data.err # "" THEN FreqRaise(h, headers, data.err)
          ELSE IF data.labels_len = <<>> THEN FreqRaise(h, headers, "TypeError")
          ELSE
            Bind(headers @@ DefaultHeaders(data.labels_len[1]), LAMBDA merged :
            Bind(TableInit(h,
                           List(data.rows
                                \o (IF shown.trunc THEN <<EllipsisRow>> ELSE <<>>)
                                \o << SummaryRow(total, round.value, ranks) >>),
                           List(HeadersRow(merged, ranks)), <<>>, EmptyKw), LAMBDA made :
              [h |-> made.h, id |-> made.id,
               err |-> IF made.err THEN "AttributeError" ELSE "",
               headers |-> merged])))))))

-----------------------------------------------------------------------------
(* The calls of make_freq_table. *)

MaxFreqSteps == 2

FreqInputs ==
  { <<>>,
    ("a" :> 3) @@ ("b" :> 1),
    ("a" :> 3) @@ ("b" :> 0),
    ("a" :> 0),
    ("a" :> 4),
    ("a" :> 2) @@ ("b" :> 1),
    ("a" :> 1) @@ ("b" :> 1) @@ ("c" :> 2),
    ("a" :> 3) @@ ("b" :> 1) @@ ("c" :> 1),
    ("a" :> 1000) @@ ("b" :> 1),
    ("a" :> 199) @@ ("b" :> 1) }

LabelsInputs == { <<>>, ("a" :> "Alpha") }

HeadersInputs == { <<>>, (1 :> Val("Name")) }

MaxRowsInputs == { <<>>, <<0>>, <<1>>, <<2>>, <<-1>> }

\* A splitter that makes two columns of every key, and one that makes one
\* column of 'a' and two of the other keys.
SplitterInputs ==
  { <<>>,
    << [key \in {"a", "b", "c"} |-> <<Val(key), Val("x")>>] >>,
    << [key \in {"a", "b", "c"} |-> IF key = "a" THEN <<Val(key)>>
                                    ELSE <<Val(key), Val("x")>>] >> }

OrderInputs == { <<>>, <<"b", "z">>, <<"c", "a">>, <<"b", "b">> }

\* Table.make_freq_table(freqs, labels=labels, headers=headers, max_rows=max_rows,
\* ranks=ranks, splitter=splitter, order=order), the first call of a process
MakeFreq(freqs, labels, headers, max_rows, ranks, splitter, order) ==
  /\ steps = 0
  /\ LET r == MakeFreqTable(Heap, freqs, labels, headers, max_rows, ranks, splitter, order)
     IN  /\ SetHeap(r.h)
         /\ CallOut("make_freq_table", r.id,
                    [freqs |-> freqs, labels |-> labels, headers |-> headers,
                     max_rows |-> max_rows, ranks |-> ranks, splitter |-> splitter,
                     order |-> order],
                    r.err # "", [error |-> r.err, headers |-> r.headers])

\* table.to_text() on the table made
FreqTableText(t) ==
  /\ steps < MaxFreqSteps
  /\ UNCHANGED <<styleHeap, cellHeap, rowHeap, rowsHeap, tableHeap, copiedFrom>>
  /\ CallOut("Table.to_text", t, <<>>, FALSE, TableToText(Heap, t))

\* table.to_html() on the table made
FreqTableHtml(t) ==
  /\ steps < MaxFreqSteps
  /\ LET res == TableToHtml(Heap, t)
     IN  /\ SetHeap(res.h)
         /\ CallOut("Table.to_html", t, <<>>, FALSE, res.out)

NextFreq ==
  \/ \E freqs \in FreqInputs, labels \in LabelsInputs, headers \in HeadersInputs,
        max_rows \in MaxRowsInputs, ranks \in BOOLEAN, splitter \in SplitterInputs,
        order \in OrderInputs :
       MakeFreq(freqs, labels, headers, max_rows, ranks, splitter, order)
  \/ \E t \in Tables : FreqTableText(t)
  \/ \E t \in Tables : FreqTableHtml(t)

\* A call of make_freq_table and the rendering of its table.
SpecFreq == Init /\ [][NextFreq]_vars

-----------------------------------------------------------------------------
(* Claims C16 to C20. Frequency tables: inputs, order, truncation, summary. *)

\* The state after a call of make_freq_table, and after one that returned.
FreqCalled == last.op = "make_freq_table"
FreqReturned == FreqCalled /\ ~last.err

\* The keys of the items the call shows, in the order of the rows.
ShownItems(arg) == FreqShown(FreqAllItems(arg.freqs, arg.order), arg.max_rows).items

\* The splitter returns different numbers of columns for two of the keys.
SplitterInconsistentOn(splitter, keys) ==
  /\ splitter # <<>>
  /\ \E k1 \in keys, k2 \in keys : Len(splitter[1][k1]) # Len(splitter[1][k2])

\* C16: make_freq_table returns a Table for every non-empty mapping of values
\* to non-negative counts, zero counts included: a call fails only when the
\* mapping is empty or the splitter's column counts are inconsistent.
C16_OnlyEmptyOrSplitterFails ==
  (FreqCalled /\ last.err) =>
    \/ DOMAIN last.arg.freqs = {}
    \/ SplitterInconsistentOn(last.arg.splitter, DOMAIN last.arg.freqs)

\* C17: make_freq_table fails on an empty mapping, and fails with the
\* 'Splitter returned inconsistent number of columns' error whenever the
\* splitter returns different column counts for two shown keys; no Table is
\* returned in either case.
C17_EmptyAndSplitterErrors ==
  FreqCalled =>
    /\ DOMAIN last.arg.freqs = {} => (last.err /\ last.target = 0)
    /\ SplitterInconsistentOn(last.arg.splitter,
                              {ShownItems(last.arg)[i][1] : i \in 1..Len(ShownItems(last.arg))})
         => /\ last.out.error = "ValueError: Splitter returned inconsistent number of columns"
            /\ last.target = 0

\* The text of cell number i of a row.
CellText(r, i) == cellHeap[rowHeap[r].items[i]].value

\* The body rows made of the items: those before the summary row and before
\* the ellipsis row, if there is one.
DataRows(t) ==
  LET body == BodyItems(t)
      n == Len(body) - 1
  IN  IF n > 0 /\ CellText(body[n], 1) = "..." THEN SubSeq(body, 1, n - 1)
      ELSE SubSeq(body, 1, n)

\* The text the label column shows for a key.
LabelText(arg, key) ==
  IF arg.splitter = <<>> /\ key \in DOMAIN arg.labels THEN arg.labels[key] ELSE key

\* The keys whose label a data row shows.
RowKeys(arg, r) ==
  { key \in DOMAIN arg.freqs :
      CellText(r, IF arg.ranks THEN 2 ELSE 1) = LabelText(arg, key) }

\* C18: with no custom order the data rows are in descending order of count,
\* equal counts in ascending order of value, each row showing its key's
\* count, and with ranks enabled row k starts with rank k.
C18_RowsByCountThenValue ==
  (FreqReturned /\ last.arg.order = <<>>) =>
    LET arg == last.arg
        rows == DataRows(last.target)
        count(k) == arg.freqs[CHOOSE key \in RowKeys(arg, rows[k]) : TRUE]
        index(k) == KeyIndex(CHOOSE key \in RowKeys(arg, rows[k]) : TRUE)
    IN  /\ \A k \in 1..Len(rows) :
             /\ Cardinality(RowKeys(arg, rows[k])) = 1
             /\ CellText(rows[k], Len(rowHeap[rows[k]].items) - 1) = FormatThousands(count(k))
             /\ arg.ranks => CellText(rows[k], 1) = ToString(k)
        /\ \A k \in 1..(Len(rows) - 1) :
             \/ count(k) > count(k + 1)
             \/ count(k) = count(k + 1) /\ index(k) < index(k + 1)

\* A table of three ranked rows, two of them with equal counts.
C18_Witness ==
  /\ FreqReturned
  /\ last.arg.order = <<>>
  /\ last.arg.ranks
  /\ last.arg.freqs = ("a" :> 1) @@ ("b" :> 1) @@ ("c" :> 2)
  /\ Len(DataRows(last.target)) = 3

\* The row holds the single cell '...'.
IsEllipsisRow(r) == Len(rowHeap[r].items) = 1 /\ CellText(r, 1) = "..."

\* The row is labelled '(Total)'.
IsSummaryRow(arg, r) ==
  /\ Len(rowHeap[r].items) >= 3
  /\ CellText(r, IF arg.ranks THEN 2 ELSE 1) = "(Total)"

\* The last row of the body and the text of its last cell.
SummaryOf(t) == BodyItems(t)[Len(BodyItems(t))]
LastCellText(r) == CellText(r, Len(rowHeap[r].items))

\* C19: for every max_rows and every non-empty mapping (here: of positive
\* counts, with no splitter), the call returns a table whose body is max_rows
\* data rows, an ellipsis row and the summary row when there are more than
\* max_rows keys, and one data row per key and the summary row otherwise.
C19_BodyRowCounts ==
  ( /\ FreqCalled
    /\ DOMAIN last.arg.freqs # {}
    /\ \A key \in DOMAIN last.arg.freqs : last.arg.freqs[key] > 0
    /\ last.arg.splitter = <<>> ) =>
    /\ ~last.err
    /\ LET arg == last.arg
           body == BodyItems(last.target)
           n == Cardinality(DOMAIN arg.freqs)
           notSpecial(k) == ~IsEllipsisRow(body[k]) /\ ~IsSummaryRow(arg, body[k])
       IN  IF arg.max_rows # <<>> /\ n > arg.max_rows[1]
           THEN /\ Len(body) = arg.max_rows[1] + 2
                /\ \A k \in 1..arg.max_rows[1] : notSpecial(k)
                /\ IsEllipsisRow(body[Len(body) - 1])
                /\ IsSummaryRow(arg, body[Len(body)])
           ELSE /\ Len(body) = n + 1
                /\ \A k \in 1..n : notSpecial(k)
                /\ IsSummaryRow(arg, body[Len(body)])

-----------------------------------------------------------------------------
(* Claims C21 to C26. Frequency tables: header row, order, percentages. *)

\* The number of label columns of the call: 1, or what the splitter makes of
\* the first shown key.
LabelColumns(arg) ==
  IF arg.splitter = <<>> THEN 1 ELSE Len(arg.splitter[1][ShownItems(arg)[1][1]])

\* The text of the header cell of column index i: the caller's, or the default.
HeaderText(arg, i, default) ==
  IF i \in DOMAIN arg.headers THEN arg.headers[i].v ELSE default

\* The texts of the cells of a row.
RowTexts(r) == [i \in 1..Len(rowHeap[r].items) |-> CellText(r, i)]

\* C21: the table made has exactly one header row, holding the rank header
\* (with ranks only), 'Value', 'Count' and 'Percent', each replaced by the
\* caller's header of that column index if there is one.
C21_OneHeaderRow ==
  FreqReturned =>
    LET arg == last.arg
        L == LabelColumns(arg)
        named == << HeaderText(arg, 1, "Value"), HeaderText(arg, 1 + L, "Count"),
                    HeaderText(arg, 2 + L, "Percent") >>
    IN  /\ Len(HeaderItems(last.target)) = 1
        /\ RowTexts(HeaderItems(last.target)[1])
             = (IF arg.ranks THEN << HeaderText(arg, 0, "") >> ELSE <<>>) \o named

\* The key a data row shows.
RowKey(arg, r) == CHOOSE key \in RowKeys(arg, r) : TRUE

\* The position of the first entry of order that is the key.
OrderIndex(order, key) == CHOOSE i \in 1..Len(order) : order[i] = key /\ \A j \in 1..(i - 1) : order[j] # key

\* The element is an entry of the sequence.
InSeq(seq, e) == \E i \in 1..Len(seq) : seq[i] = e

\* C22: with a custom order and no truncation every key is shown exactly
\* once: the keys named in order first, in the sequence of order, then the
\* other keys in their order by count and value.
C22_CustomOrderPermutes ==
  (FreqReturned /\ last.arg.order # <<>> /\ last.arg.max_rows = <<>>) =>
    LET arg == last.arg
        rows == DataRows(last.target)
        key(k) == RowKey(arg, rows[k])
        n == Cardinality(DOMAIN arg.freqs)
    IN  /\ \A k \in 1..Len(rows) : Cardinality(RowKeys(arg, rows[k])) = 1
        /\ Len(rows) = n
        /\ \A i \in 1..Len(rows), j \in 1..Len(rows) :
             i < j =>
               /\ key(i) # key(j)
               /\ IF InSeq(arg.order, key(j))
                  THEN /\ InSeq(arg.order, key(i))
                       /\ OrderIndex(arg.order, key(i)) < OrderIndex(arg.order, key(j))
                  ELSE \/ InSeq(arg.order, key(i))
                       \/ FreqItemBefore(<<key(i), arg.freqs[key(i)]>>,
                                         <<key(j), arg.freqs[key(j)]>>)

RECURSIVE SumOfCounts(_, _)
\* The sum of the counts of the keys.
SumOfCounts(freqs, keys) ==
  IF keys = {} THEN 0
  ELSE LET key == CHOOSE k \in keys : TRUE
       IN  freqs[key] + SumOfCounts(freqs, keys \ {key})

\* The texts that show the percentage 100*count/total: the whole number, or
\* the fraction with some number of decimals.
PercentTexts(count, total) ==
  IF (100 * count) % total = 0 THEN { ToString((100 * count) \div total) }
  ELSE { FormatPercent(100 * count, total, d) : d \in 1..4 }

\* C23: the summary row shows the sum of all counts of freqs, and every data
\* row shows 100*count/total for that total, with or without truncation and
\* with or without a custom order.
C23_PercentOfFullTotal ==
  FreqReturned =>
    LET arg == last.arg
        rows == DataRows(last.target)
        summary == SummaryOf(last.target)
        total == SumOfCounts(arg.freqs, DOMAIN arg.freqs)
    IN  /\ CellText(summary, Len(rowHeap[summary].items) - 1) = FormatThousands(total)
        /\ \A k \in 1..Len(rows) :
             /\ Cardinality(RowKeys(arg, rows[k])) = 1
             /\ LastCellText(rows[k]) \in PercentTexts(arg.freqs[RowKey(arg, rows[k])], total)

\* The last cell of a row, with its style.
LastCell(r) == CellView(rowHeap[r].items[Len(rowHeap[r].items)])

\* The total of the call and the number of decimals of its percentages.
CallTotal(arg) == SumCounts(FreqAllItems(arg.freqs, arg.order))
CallDecimals(arg) == MaxRoundTo(ShownItems(arg), CallTotal(arg), 0).value

\* C24: the percent cell of a data row is aligned left and shows the whole
\* number when its percentage is a whole number, and is aligned right and
\* shows the percentage with the decimals of the table when it is fractional.
C24_PercentCellAlign ==
  FreqReturned =>
    LET arg == last.arg
        rows == DataRows(last.target)
        total == CallTotal(arg)
    IN  \A k \in 1..Len(rows) :
          LET count == ShownItems(arg)[k][2]
              cell == LastCell(rows[k])
          IN  IF (100 * count) % total = 0
              THEN /\ cell.value = ToString((100 * count) \div total)
                   /\ cell.style.align = "left"
              ELSE /\ cell.value = FormatPercent(100 * count, total, CallDecimals(arg))
                   /\ cell.style.align = "right"

\* The decimals a percentage count/total needs to show its first digit that
\* is not zero: 1 from 1 percent on, else the place of that digit.
DecimalsNeeded(count, total) ==
  IF 100 * count >= total THEN 1
  ELSE CHOOSE d \in 1..8 :
         /\ 100 * count * Pow10(d) >= total
         /\ \A e \in 1..(d - 1) : 100 * count * Pow10(e) < total

\* The texts that show a percentage of zero.
ZeroPercentTexts == {"0"} \cup { FormatFixed(0, 1, d) \o " %" : d \in 0..8 }

\* C25: the decimals of the table are the largest number of decimals a shown
\* row needs, every fractional percentage is written with them, and no shown
\* row with a count above zero is shown as zero percent.
C25_DecimalsKeepFirstDigit ==
  FreqReturned =>
    LET arg == last.arg
        rows == DataRows(last.target)
        total == CallTotal(arg)
        count(k) == ShownItems(arg)[k][2]
        needed == { DecimalsNeeded(count(k), total) : k \in 1..Len(rows) }
        decimals == CHOOSE d \in needed : \A e \in needed : e <= d
    IN  \A k \in 1..Len(rows) :
          /\ count(k) > 0 => LastCellText(rows[k]) \notin ZeroPercentTexts
          /\ (100 * count(k)) % total # 0 =>
               LastCellText(rows[k]) = FormatPercent(100 * count(k), total, decimals)

\* A table with a row of less than a tenth of a percent, written with two decimals.
C25_Witness ==
  /\ FreqReturned
  /\ last.arg.freqs = ("a" :> 1000) @@ ("b" :> 1)
  /\ last.arg.max_rows = <<>>
  /\ Len(DataRows(last.target)) = 2
  /\ \E k \in 1..2 : LastCellText(DataRows(last.target)[k]) = "0.10 %"
  /\ \E k \in 1..2 : LastCellText(DataRows(last.target)[k]) = "99.90 %"

\* C26: when max_rows truncates the list, the row before the summary row is a
\* single centered '...' cell as wide as the label columns.
C26_EllipsisSpansLabels ==
  ( /\ FreqReturned
    /\ last.arg.max_rows # <<>>
    /\ last.arg.max_rows[1] > 0
    /\ Cardinality(DOMAIN last.arg.freqs) > last.arg.max_rows[1] ) =>
    LET body == BodyItems(last.target)
        row == body[Len(body) - 1]
    IN  /\ IsEllipsisRow(row)
        /\ LastCell(row).style.align = "center"
        /\ LastCell(row).width = LabelColumns(last.arg)

-----------------------------------------------------------------------------
(* Claims C28 and C29. Frequency tables: row widths, the caller's arguments. *)

\* The sum of the widths of the cells of a row.
RowWidth(r) == SumWidths(Heap, rowHeap[r].items)

\* C28: the header rows, the data rows and the summary row of the table made
\* all have the same total width.
C28_RowsOfEqualWidth ==
  FreqReturned =>
    LET t == last.target
        rows == HeaderItems(t) \o DataRows(t) \o << SummaryOf(t) >>
    IN  \A i \in 1..Len(rows), j \in 1..Len(rows) : RowWidth(rows[i]) = RowWidth(rows[j])

\* C29: the headers mapping the caller passes holds the same entries after
\* the call as before it.
C29_HeadersArgumentUnchanged ==
  (FreqCalled /\ last.arg.headers # <<>>) =>
    /\ DOMAIN last.out.headers = DOMAIN last.arg.headers
    /\ \A i \in DOMAIN last.arg.headers : last.out.headers[i] = last.arg.headers[i]

-----------------------------------------------------------------------------
(* GeneratorList (generator_list.py): a list that reads a generator lazily. *)
(* The generator is the sequence source of the items it yields and the      *)
(* number pos of items it has yielded so far.                               *)

\* GeneratorList(generator)
GeneratorListInit(source) ==
  [made |-> TRUE, source |-> source, pos |-> 0,
   _current_list |-> <<>>, _generator_done |-> FALSE]

\* What a call returns: the object after it, the exception raised ('' for
\* none) and the value returned.
GenResult(g, err, value) == [g |-> g, err |-> err, value |-> value]

RECURSIVE GetitemPullReturnedOnly(_, _)
\* A loop that caches only the item it returns.
GetitemPullReturnedOnly(g, index) ==
  IF g.pos >= Len(g.source)
  THEN GenResult([g EXCEPT !._generator_done = TRUE], "IndexError", None)
  ELSE LET item == g.source[g.pos + 1]
       IN  IF g.pos + 1 >= index + 1
           THEN GenResult([g EXCEPT !.pos = @ + 1, !._current_list = Append(@, item)], "", item)
           ELSE GetitemPullReturnedOnly([g EXCEPT !.pos = @ + 1], index)

RECURSIVE GetitemPull(_, _)
\* for item in self._generator: append it; return it when the list has
\* index+1 items. The exhausted generator sets _generator_done and raises.
GetitemPull(g, index) ==
  IF g.pos >= Len(g.source)
  THEN GenResult([g EXCEPT !._generator_done = TRUE], "IndexError", None)
  ELSE LET item == g.source[g.pos + 1]
           g1 == [g EXCEPT !.pos = @ + 1, !._current_list = Append(@, item)]
       IN  IF Len(g1._current_list) = index + 1 THEN GenResult(g1, "", item)
           ELSE GetitemPull(g1, index)

\* self._current_list[index], a negative index counting from the end
PyListIndex(list, index) ==
  IF index >= 0 THEN [ok |-> TRUE, item |-> list[index + 1]]
  ELSE IF -index <= Len(list) THEN [ok |-> TRUE, item |-> list[Len(list) + index + 1]]
  ELSE [ok |-> FALSE, item |-> None]

\* GeneratorList.__getitem__(index), index an integer
GeneratorListGetitem(g, index) ==
  IF index < Len(g._current_list)
  THEN LET found == PyListIndex(g._current_list, index)
       IN  IF found.ok THEN GenResult(g, "", found.item) ELSE GenResult(g, "IndexError", None)
  ELSE IF g._generator_done THEN GenResult(g, "IndexError", None)
  ELSE GetitemPull(g, index)

RECURSIVE IterateAll(_, _)
\* Iterating the object to its end: there is no __iter__, so iteration calls
\* self[0], self[1], ... until IndexError. value is the number of items.
IterateAll(g, i) ==
  LET got == GeneratorListGetitem(g, i)
  IN  IF got.err # "" THEN GenResult(got.g, "", i) ELSE IterateAll(got.g, i + 1)

RECURSIVE IterateUntil(_, _, _, _, _)
\* Iterating the object until an item at a position in start..stop-1 equals the
\* query: value is the position, err 'ValueError' when the iteration ends.
IterateUntil(g, i, query, start, stop) ==
  LET got == GeneratorListGetitem(g, i)
  IN  IF got.err # "" THEN GenResult(got.g, "ValueError", 0)
      ELSE IF start <= i /\ i < stop /\ got.value = query THEN GenResult(got.g, "", i)
      ELSE IterateUntil(got.g, i + 1, query, start, stop)

\* GeneratorList.__len__(): the loop variable is unbound after no iteration
GeneratorListLen(g) ==
  LET all == IterateAll(g, 0)
  IN  IF all.value = 0 THEN GenResult(all.g, "UnboundLocalError", 0) ELSE all

\* The item is in the list.
ListContains(list, query) == \E i \in 1..Len(list) : list[i] = query

\* GeneratorList.__contains__(query)
GeneratorListContains(g, query) ==
  IF ListContains(g._current_list, query) THEN GenResult(g, "", TRUE)
  ELSE IF g._generator_done THEN GenResult(g, "", FALSE)
  ELSE LET found == IterateUntil(g, 0, query, 0, Len(g.source) + 1)
       IN  GenResult(found.g, "", found.err = "")

\* GeneratorList.__bool__()
GeneratorListBool(g) ==
  IF g._current_list # <<>> THEN GenResult(g, "", TRUE)
  ELSE IF g._generator_done THEN GenResult(g, "", FALSE)
  ELSE LET got == GeneratorListGetitem(g, 0)
       IN  GenResult(got.g, "", got.err = "")

\* GeneratorList.index(query, start): stop is sys.maxsize
GeneratorListIndex(g, query, start) == IterateUntil(g, 0, query, start, Len(g.source) + 1)

\* GeneratorList.count(query): list(self) asks len(self) for a size hint and
\* then iterates the object.
GeneratorListCount(g, query) ==
  LET hint == GeneratorListLen(g)
      list == hint.g._current_list
  IN  IF hint.err # "" THEN hint
      ELSE GenResult(hint.g, "", Cardinality({i \in 1..Len(list) : list[i] = query}))

-----------------------------------------------------------------------------
(* The calls on a GeneratorList. *)

MaxGenLen == 3
MaxGenSteps == 4

GenItems == {"x", "y"}

\* The generators: those that yield up to MaxGenLen items.
GenSources == UNION { [1..n -> GenItems] : n \in 0..MaxGenLen }

GenQueries == GenItems \cup {"z"}

GenIndexes == -1..(MaxGenLen + 1)

\* The call leaves the tables alone and is recorded.
GenCall(op, arg, res) ==
  /\ generatorList.made
  /\ steps < MaxGenSteps
  /\ generatorList' = res.g
  /\ last' = [op |-> op, target |-> 0, arg |-> arg, err |-> res.err # "",
              out |-> [error |-> res.err, value |-> res.value]]
  /\ steps' = steps + 1
  /\ UNCHANGED <<styleHeap, cellHeap, rowHeap, rowsHeap, tableHeap, copiedFrom, hashOrder>>

\* g = GeneratorList(generator)
NewGeneratorList(source) ==
  /\ ~generatorList.made
  /\ generatorList' = GeneratorListInit(source)
  /\ last' = [op |-> "GeneratorList", target |-> 0, arg |-> source, err |-> FALSE, out |-> <<>>]
  /\ steps' = steps + 1
  /\ UNCHANGED <<styleHeap, cellHeap, rowHeap, rowsHeap, tableHeap, copiedFrom, hashOrder>>

\* g[index]
GenGetitem(index) ==
  GenCall("__getitem__", [index |-> index], GeneratorListGetitem(generatorList, index))

\* len(g)
GenLen == GenCall("__len__", <<>>, GeneratorListLen(generatorList))

\* query in g
GenContains(query) ==
  GenCall("__contains__", [query |-> query], GeneratorListContains(generatorList, query))

\* bool(g)
GenBool == GenCall("__bool__", <<>>, GeneratorListBool(generatorList))

\* g.index(query, start)
GenIndex(query, start) ==
  GenCall("index", [query |-> query, start |-> start],
          GeneratorListIndex(generatorList, query, start))

\* g.count(query)
GenCount(query) ==
  GenCall("count", [query |-> query], GeneratorListCount(generatorList, query))

NextGen ==
  \/ \E source \in GenSources : NewGeneratorList(source)
  \/ \E index \in GenIndexes : GenGetitem(index)
  \/ GenLen
  \/ \E query \in GenQueries : GenContains(query)
  \/ GenBool
  \/ \E query \in GenQueries, start \in 0..1 : GenIndex(query, start)
  \/ \E query \in GenQueries : GenCount(query)

\* A GeneratorList and the calls made on it.
SpecGen == Init /\ [][NextGen]_vars

-----------------------------------------------------------------------------
(* Claim C27. GeneratorList caches what it generates. *)

\* C27: after any calls of g[i], in, bool, len, index and count, the cache
\* holds exactly the items the generator has yielded so far, each yielded
\* once, in the generator's order; and g[i] for i >= 0 returns the i-th item
\* of the generator, or raises IndexError when the generator has fewer than
\* i+1 items, whatever was called before.
C27_CacheIsPrefixOfGenerator ==
  generatorList.made =>
    LET g == generatorList
        cached == Len(g._current_list)
    IN  /\ g.pos = cached
        /\ cached <= Len(g.source)
        /\ g._current_list = SubSeq(g.source, 1, cached)
        /\ g._generator_done => cached = Len(g.source)
        /\ (last.op = "__getitem__" /\ last.arg.index >= 0) =>
             IF last.arg.index < Len(g.source)
             THEN /\ ~last.err
                  /\ last.out.value = g.source[last.arg.index + 1]
             ELSE last.out.error = "IndexError"

\* g[1] answered from the cache, after calls that read the generator to its end.
C27_Witness ==
  /\ generatorList.made
  /\ Len(generatorList.source) = 3
  /\ generatorList._generator_done
  /\ steps = 4
  /\ last.op = "__getitem__"
  /\ last.arg.index = 1
  /\ ~last.err

-----------------------------------------------------------------------------
(* Claim C30. Table.extend and the objects two tables share. *)

\* What a table shows: per row its header flag, its style and its cells with
\* their styles.
TableDeepView(h, t) ==
  LET rows == TableIter(h, t)
  IN  [i \in 1..Len(rows) |->
         [header |-> h.rows[rows[i]].header,
          style |-> h.styles[h.rows[rows[i]].style],
          cells |-> [j \in 1..Len(h.rows[rows[i]].items) |->
                       CellViewIn(h, h.rows[rows[i]].items[j])]]]

\* A deep_apply on either table leaves what the other table shows unchanged.
Independent(a, b) ==
  \A kwargs \in DeepApplyInputs :
    /\ TableDeepView(TableDeepApply(Heap, b, kwargs), a) = TableDeepView(Heap, a)
    /\ TableDeepView(TableDeepApply(Heap, a, kwargs), b) = TableDeepView(Heap, b)

\* C30: after a.extend(b, direction), in either direction, a mutation of b
\* leaves every row and cell of a unchanged and a mutation of a leaves b
\* unchanged, for tables a and b that were independent before the call.
C30_ExtendSharesNothing ==
  [][\A a \in Tables, b \in Tables :
       (/\ last'.op = "extend"
        /\ ~last'.err
        /\ last'.target = a
        /\ last'.arg.other = b
        /\ a # b
        /\ Independent(a, b)) => Independent(a, b)']_vars

====
